---- MODULE Spec2Model ----
(***************************************************************************)
(* Model of blossom's Slack / GitHub-sponsors helper layer                 *)
(* (api/views/slack_helpers.py, api/slack/commands/info.py,                *)
(* blossom/api/slack/commands/watchstatus.py).                             *)
(*                                                                         *)
(* Text is modelled as a sequence of one-character strings, so that        *)
(* str.index, str.split, str.startswith, str.lower and slicing are         *)
(* computed as Python computes them.  Bytes outside ASCII are modelled as  *)
(* two-letter hexadecimal names ("C3", "A9", "E9").                        *)
(***************************************************************************)
EXTENDS Integers, Sequences, FiniteSets, TLC

VARIABLES
    now,        \* time.time(), in units of 1/TicksPerSecond seconds
    vKind,      \* which verifier ran last: "none", "slack" or "github"
    vReq,       \* the request it was given
    vRes,       \* what it returned (or the exception it raised)
    vAt,        \* the value of now at that evaluation
    vPrevRes,   \* the result of the evaluation before, on the same request
    vPrevAt,    \* the value of now at the evaluation before
    ticks,      \* how many times the clock has advanced
    users,      \* BlossomUser rows, in primary-key order
    subs,       \* Submission rows, by id
    pc,         \* where each request's thread stands: the blocking call it is at
    inflight,   \* the payload each thread handles
    local,      \* what each thread holds: the objects it loaded, what it has
                \* made of them, and the store around its write
    sent,       \* the calls each thread made on the Slack client
    lastData,   \* the payload of the request that ended last
    outbox,     \* the calls it made on the Slack client, in order
    fault,      \* the exception that ended it, "none" when it returned
    called,     \* the handlers it called, in order
    removedPosts, \* the submission ids it called remove_post with
    usersBefore, \* users just before its write (when it started, if it wrote nothing)
    subsBefore, \* subs just before its write
    usersAfter, \* users just after its write
    subsAfter,  \* subs just after its write
    lastResponse, \* what requests.get gave it
    users0,     \* users in the initial state
    toggles,    \* per user and flag, the number of toggle commands ended so far, mod 2
    cIn,        \* the text clean_links was given last
    cOut,       \* the text it returned
    dIn,        \* the delta _relative_duration was given last, in seconds
    dOut,       \* what it returned
    apiSubs,    \* the Submission rows behind the submission-remove endpoint
    apiPending, \* the request the endpoint is handling: the updates it has yet
                \* to make on the row
    apiBefore,  \* apiSubs before the request handled last
    apiReq,     \* the request handled last
    apiStatus   \* the HTTP status it was answered with

sigVars == <<now, vKind, vReq, vRes, vAt, vPrevRes, vPrevAt, ticks>>

storeVars == <<users, subs>>

msgVars ==
    <<lastData, outbox, fault, called, removedPosts, usersBefore, subsBefore,
      usersAfter, subsAfter, users0, toggles>>

concVars == <<pc, inflight, local, sent>>

cleanVars == <<cIn, cOut>>

durVars == <<dIn, dOut>>

apiVars == <<apiSubs, apiPending, apiBefore, apiReq, apiStatus>>

(***************************************************************************)
(* Bounds of the model.                                                    *)
(***************************************************************************)
MaxBodyLen == 2        \* longest request body, in bytes
MaxTicks == 3          \* how many times the clock advances
TicksPerSecond == 2    \* resolution of the (floating point) clock
NowStart == 1000       \* the clock's first value, in seconds

(***************************************************************************)
(* Program constants.                                                      *)
(***************************************************************************)
ReplayWindow == 300    \* 60 * 5 seconds

(***************************************************************************)
(* Generic sequence helpers.                                               *)
(***************************************************************************)
SeqsUpTo(S, n) == UNION {[1..k -> S] : k \in 0..n}

Abs(x) == IF x < 0 THEN -x ELSE x

\* s[from..] in Python's 0-based slicing, written with 1-based positions
Drop(s, k) == IF k >= Len(s) THEN <<>> ELSE SubSeq(s, k + 1, Len(s))

Take(s, k) == IF k <= 0 THEN <<>> ELSE SubSeq(s, 1, IF k > Len(s) THEN Len(s) ELSE k)

\* str.startswith
StartsWith(s, p) == Len(p) <= Len(s) /\ SubSeq(s, 1, Len(p)) = p

(***************************************************************************)
(* Characters and bytes.                                                   *)
(***************************************************************************)
Digits == <<"0", "1", "2", "3", "4", "5", "6", "7", "8", "9">>

DigitSet == {Digits[i] : i \in 1..10}

DigitValue == [c \in DigitSet |-> (CHOOSE i \in 1..10 : Digits[i] = c) - 1]

DigitVal(c) == DigitValue[c]

\* A character that has no escape in a string is written by its code point:
\* "U000B" is "\x0b", "U00E9" is "\u00e9".

\* the white space that is not ASCII: str.isspace() above U+007F
NonAsciiSpace ==
    {"U0085", "U00A0", "U1680", "U2000", "U2001", "U2002", "U2003", "U2004",
     "U2005", "U2006", "U2007", "U2008", "U2009", "U200A", "U2028", "U2029",
     "U202F", "U205F", "U3000"}

\* the separators U+001C..U+001F: white space for str, not for int()
Separators == {"U001C", "U001D", "U001E", "U001F"}

\* the characters str.split() and str.strip() treat as white space, which
\* are the ones \s of a regular expression matches
Whitespace ==
    {" ", "\t", "\n", "\r", "\f", "U000B"} \cup Separators \cup NonAsciiSpace

\* the letters that are not ASCII, each with its other case
NonAsciiLetters ==
    {"U00C0", "U00E0", "U00C9", "U00E9", "U0100", "U0101", "U0128", "U0129"}

\* characters that are not ASCII (a header decoded as latin-1 may hold them)
NonAscii == NonAsciiLetters \cup NonAsciiSpace

\* bytes.decode(): UTF-8.  A lead byte "C3" or "C4" and a continuation byte "80"
\* or "A9" make one character (U+00C0, U+00E9, U+0100, U+0129); a lead byte
\* without a continuation byte, or a lone continuation byte, is an error.
Utf8Lead == {"C3", "C4"}

Utf8Cont == {"A9", "80"}

Utf8Char(lead, cont) ==
    IF cont \notin Utf8Cont THEN "invalid"
    ELSE IF lead = "C3" THEN (IF cont = "80" THEN "U00C0" ELSE "U00E9")
    ELSE IF lead = "C4" THEN (IF cont = "80" THEN "U0100" ELSE "U0129")
    ELSE "invalid"

RECURSIVE Utf8Decode(_)
Utf8Decode(bytes) ==
    IF bytes = <<>> THEN [ok |-> TRUE, chars |-> <<>>]
    ELSE IF Head(bytes) \in Utf8Cont THEN [ok |-> FALSE, chars |-> <<>>]
    ELSE IF Head(bytes) \in Utf8Lead THEN
        IF Len(bytes) < 2 \/ Utf8Char(bytes[1], bytes[2]) = "invalid"
        THEN [ok |-> FALSE, chars |-> <<>>]
        ELSE LET rest == Utf8Decode(Drop(bytes, 2))
             IN  [ok |-> rest.ok,
                  chars |-> <<Utf8Char(bytes[1], bytes[2])>> \o rest.chars]
    ELSE LET rest == Utf8Decode(Tail(bytes))
         IN  [ok |-> rest.ok, chars |-> <<Head(bytes)>> \o rest.chars]

\* the characters from U+0080 to U+00FF, with the byte latin-1 gives each
Latin1Chars == <<"U0085", "U00A0", "U00C0", "U00C9", "U00E0", "U00E9">>

Latin1Bytes == <<"85", "A0", "C0", "C9", "E0", "E9">>

\* bytes(text, "latin-1"): one byte per character up to U+00FF, an error above
Latin1Byte(c) ==
    IF \E k \in 1..Len(Latin1Chars) : Latin1Chars[k] = c
    THEN Latin1Bytes[CHOOSE k \in 1..Len(Latin1Chars) : Latin1Chars[k] = c]
    ELSE c

Latin1Encode(chars) ==
    IF \E i \in 1..Len(chars) :
           chars[i] \in NonAscii /\ \A k \in 1..Len(Latin1Chars) : Latin1Chars[k] # chars[i]
    THEN [ok |-> FALSE, bytes |-> <<>>]
    ELSE [ok |-> TRUE, bytes |-> [i \in 1..Len(chars) |-> Latin1Byte(chars[i])]]

\* how many elements of S the sequence s starts with, and ends with
LeadLen(s, S) == Cardinality({i \in 1..Len(s) : \A j \in 1..i : s[j] \in S})

TrailLen(s, S) == Cardinality({i \in 1..Len(s) : \A j \in i..Len(s) : s[j] \in S})

\* str.strip()
LStrip(s) == SubSeq(s, LeadLen(s, Whitespace) + 1, Len(s))

RStrip(s) == SubSeq(s, 1, Len(s) - TrailLen(s, Whitespace))

Strip(s) == RStrip(LStrip(s))

\* the decimal value of a sequence of digits
RECURSIVE DecimalValue(_, _)
DecimalValue(s, acc) ==
    IF s = <<>> THEN acc
    ELSE DecimalValue(Tail(s), acc * 10 + DigitVal(Head(s)))

NotUnderscore(c) == c # "_"

\* the digits of a literal, its underscores left out
DigitsOf(body) == SelectSeq(body, NotUnderscore)

\* the digits without the zeros they start with
Significant(d) == SubSeq(d, LeadLen(d, {"0"}) + 1, Len(d))

\* sys.int_max_str_digits: int() raises ValueError on a literal of more digits
IntMaxStrDigits == 4300

\* the longest literal whose value is computed: every such value is an integer
\* of the model checker
MaxValueDigits == 9

\* 2**1024 - 2**970, the least integer that float() cannot take: converting
\* it, as time.time() - int(timestamp) does, raises OverflowError
FloatLimit ==
    <<"1", "7", "9", "7", "6", "9", "3", "1", "3", "4", "8", "6", "2", "3", "1", "5",
       "8", "0", "7", "9", "3", "7", "2", "8", "9", "7", "1", "4", "0", "5", "3", "0",
       "3", "4", "1", "5", "0", "7", "9", "9", "3", "4", "1", "3", "2", "7", "1", "0",
       "0", "3", "7", "8", "2", "6", "9", "3", "6", "1", "7", "3", "7", "7", "8", "9",
       "8", "0", "4", "4", "4", "9", "6", "8", "2", "9", "2", "7", "6", "4", "7", "5",
       "0", "9", "4", "6", "6", "4", "9", "0", "1", "7", "9", "7", "7", "5", "8", "7",
       "2", "0", "7", "0", "9", "6", "3", "3", "0", "2", "8", "6", "4", "1", "6", "6",
       "9", "2", "8", "8", "7", "9", "1", "0", "9", "4", "6", "5", "5", "5", "5", "4",
       "7", "8", "5", "1", "9", "4", "0", "4", "0", "2", "6", "3", "0", "6", "5", "7",
       "4", "8", "8", "6", "7", "1", "5", "0", "5", "8", "2", "0", "6", "8", "1", "9",
       "0", "8", "9", "0", "2", "0", "0", "0", "7", "0", "8", "3", "8", "3", "6", "7",
       "6", "2", "7", "3", "8", "5", "4", "8", "4", "5", "8", "1", "7", "7", "1", "1",
       "5", "3", "1", "7", "6", "4", "4", "7", "5", "7", "3", "0", "2", "7", "0", "0",
       "6", "9", "8", "5", "5", "5", "7", "1", "3", "6", "6", "9", "5", "9", "6", "2",
       "2", "8", "4", "2", "9", "1", "4", "8", "1", "9", "8", "6", "0", "8", "3", "4",
       "9", "3", "6", "4", "7", "5", "2", "9", "2", "7", "1", "9", "0", "7", "4", "1",
       "6", "8", "4", "4", "4", "3", "6", "5", "5", "1", "0", "7", "0", "4", "3", "4",
       "2", "7", "1", "1", "5", "5", "9", "6", "9", "9", "5", "0", "8", "0", "9", "3",
       "0", "4", "2", "8", "8", "0", "1", "7", "7", "9", "0", "4", "1", "7", "4", "4",
       "9", "7", "7", "9", "2">>

\* d >= e, for two sequences of digits of one length
DigitsAtLeast(d, e) ==
    \/ d = e
    \/ \E i \in 1..Len(d) :
          /\ \A j \in 1..(i - 1) : d[j] = e[j]
          /\ DigitVal(d[i]) > DigitVal(e[i])

\* the integer with the significant digits d is FloatLimit or more
TooLargeForFloat(d) ==
    \/ Len(d) > Len(FloatLimit)
    \/ (Len(d) = Len(FloatLimit) /\ DigitsAtLeast(d, FloatLimit))

\* what int() gives on a well-formed literal: negative tells the sign, digits
\* are the significant digits.  val is the value when it has at most
\* MaxValueDigits digits; a longer one is huge, with toofloat telling whether
\* it can still be converted to a float.
IntOf(negative, digits) ==
    [ok |-> TRUE,
     val |-> IF Len(digits) > MaxValueDigits THEN 0
             ELSE IF negative THEN -DecimalValue(digits, 0)
             ELSE DecimalValue(digits, 0),
     negative |-> negative,
     huge |-> Len(digits) > MaxValueDigits,
     toofloat |-> TooLargeForFloat(digits)]

NotAnInt == [ok |-> FALSE, val |-> 0, negative |-> FALSE, huge |-> FALSE, toofloat |-> FALSE]

\* int(text): optional white space around, optional sign, digits, single
\* underscores between digits; anything else raises ValueError, and so does a
\* literal of more than IntMaxStrDigits digits.  The white space int() skips
\* is that of str.strip() without U+001C..U+001F.
PyInt(text) ==
    LET s == Strip(text)
        signed == s # <<>> /\ Head(s) \in {"+", "-"}
        body == IF signed THEN Tail(s) ELSE s
        wellFormed ==
            /\ body # <<>>
            /\ \A i \in 1..Len(body) :
                  \/ body[i] \in DigitSet
                  \/ /\ body[i] = "_"
                     /\ i > 1 /\ i < Len(body)
                     /\ body[i - 1] \in DigitSet /\ body[i + 1] \in DigitSet
    IN  IF ~wellFormed \/ \E i \in 1..Len(text) : text[i] \in Separators
        THEN NotAnInt
        ELSE IF Len(DigitsOf(body)) > IntMaxStrDigits THEN NotAnInt
        ELSE IntOf(signed /\ Head(s) = "-", Significant(DigitsOf(body)))

(***************************************************************************)
(* Signature verification.                                                 *)
(*                                                                         *)
(* A header is [has, val]: has = FALSE when the request does not carry it. *)
(* A request is [sig, ts, body]: the signature header, the timestamp       *)
(* header (Slack only) and the raw body bytes.                             *)
(***************************************************************************)
NoHeader == [has |-> FALSE, val |-> <<>>]

Header(v) == [has |-> TRUE, val |-> v]

\* settings.SLACK_SIGNING_SECRET / settings.GITHUB_SPONSORS_SECRET_KEY
SigningSecret == <<"k">>

\* the key of somebody who does not know the secret
OtherSecret == <<"j">>

\* HMAC, hex-encoded.  An injective function of algorithm, key and message:
\* the digest text spells out its arguments, the key and the message apart
\* by a mark that is neither a character nor a byte.
HexDigest(alg, key, msg) == <<alg>> \o key \o <<"|message|">> \o msg

\* hmac.compare_digest on two str: a TypeError when either holds a character
\* that is not ASCII, else equality
compare_digest(a, b) ==
    IF \/ \E i \in 1..Len(a) : a[i] \in NonAscii
       \/ \E i \in 1..Len(b) : b[i] \in NonAscii
    THEN "TypeError"
    ELSE IF a = b THEN "true" ELSE "false"

\* is_valid_github_request without the "sha1=" prefix on the computed digest
is_valid_github_request_no_prefix(req) ==
    IF ~req.sig.has THEN "false"
    ELSE compare_digest(HexDigest("sha1", SigningSecret, req.body), req.sig.val)

is_valid_github_request(req) ==
    IF ~req.sig.has THEN "false"
    ELSE LET body_hex == <<"s", "h", "a", "1", "=">>
                             \o HexDigest("sha1", SigningSecret, req.body)
         IN  compare_digest(body_hex, req.sig.val)

is_valid_slack_request(req, clock) ==
    IF ~req.sig.has THEN "false"
    ELSE IF ~req.ts.has THEN "KeyError"
    ELSE LET timestamp == PyInt(req.ts.val)
             decoded == Utf8Decode(req.body)
             sig_basestring == <<"v", "0", ":">> \o req.ts.val \o <<":">> \o decoded.chars
             encoded == Latin1Encode(sig_basestring)
             signature == <<"v", "0", "=">>
                              \o HexDigest("sha256", SigningSecret, encoded.bytes)
         IN  IF ~timestamp.ok THEN "ValueError"
             \* time.time() - int(timestamp) converts the integer to a float
             ELSE IF timestamp.toofloat THEN "OverflowError"
             ELSE IF \/ timestamp.huge
                     \/ Abs(clock - timestamp.val * TicksPerSecond)
                            > ReplayWindow * TicksPerSecond
                  THEN "false"
             ELSE IF ~decoded.ok THEN "UnicodeDecodeError"
             ELSE IF ~encoded.ok THEN "UnicodeEncodeError"
             ELSE compare_digest(signature, req.sig.val)

(***************************************************************************)
(* The requests the verifiers are given.  A sender who knows the secret    *)
(* signs the raw bytes "v0:" + timestamp + ":" + body (Slack) or the raw   *)
(* body (GitHub); the other requests are that request with one byte of the *)
(* body or one character of the signature header changed, a signature made *)
(* with another key, or no signature header.                               *)
(***************************************************************************)
AsciiBytes == {"a", "b"}

Bodies ==
    SeqsUpTo(AsciiBytes, MaxBodyLen)
        \cup {<<"C3", "A9">>, <<"a", "C3", "A9">>, <<"C4", "80">>}

TsTexts ==
    { <<"6", "9", "9">>, <<"7", "0", "0">>, <<"1", "0", "0", "0">>,
      <<"1", "3", "0", "1">>, <<"1", "2", "x">>, <<"7", "0", "0", "\r">> }

\* timestamps of 309 digits: the least integer that is too large for a float,
\* and one that is a little smaller
HugeTsTexts == {FloatLimit, [FloatLimit EXCEPT ![Len(FloatLimit)] = "1"]}

\* every text that differs from s in exactly one position, the new character from cs
OneChanged(s, cs) == {[s EXCEPT ![i] = c] : i \in 1..Len(s), c \in cs} \ {s}

SlackSignature(secret, tsText, body) ==
    <<"v", "0", "=">>
        \o HexDigest("sha256", secret, <<"v", "0", ":">> \o tsText \o <<":">> \o body)

GithubSignature(secret, body) ==
    <<"s", "h", "a", "1", "=">> \o HexDigest("sha1", secret, body)

\* the signature headers tried against a request whose right signature is ref
SignatureHeaders(ref, forged) ==
    {NoHeader, Header(ref), Header(forged), Header([ref EXCEPT ![Len(ref)] = "U00E9"])}
        \cup {Header(m) : m \in OneChanged(ref, {"x"})}

SlackRequests ==
    UNION { {[sig |-> h, ts |-> Header(t), body |-> b] :
                h \in SignatureHeaders(SlackSignature(SigningSecret, t, b),
                                       SlackSignature(OtherSecret, t, b))}
            \cup {[sig |-> Header(SlackSignature(SigningSecret, t, b)),
                   ts |-> Header(t), body |-> b2] : b2 \in OneChanged(b, {"a", "b", "A9"})}
            \cup {[sig |-> h, ts |-> NoHeader, body |-> b] :
                    h \in {NoHeader, Header(SlackSignature(SigningSecret, <<>>, b))}}
          : t \in TsTexts, b \in Bodies }
        \cup {[sig |-> Header(SlackSignature(SigningSecret, t, <<"a">>)),
               ts |-> Header(t), body |-> <<"a">>] : t \in HugeTsTexts}

GithubRequests ==
    UNION { {[sig |-> h, ts |-> NoHeader, body |-> b] :
                h \in SignatureHeaders(GithubSignature(SigningSecret, b),
                                       GithubSignature(OtherSecret, b))}
            \cup {[sig |-> Header(GithubSignature(SigningSecret, b)),
                   ts |-> NoHeader, body |-> b2] : b2 \in OneChanged(b, {"a", "b", "A9"})}
          : b \in Bodies }

\* whether the request's timestamp header is an integer within the replay window
\* of the clock value
Fresh(req, clock) ==
    /\ req.ts.has
    /\ PyInt(req.ts.val).ok
    /\ ~PyInt(req.ts.val).huge
    /\ Abs(clock - PyInt(req.ts.val).val * TicksPerSecond) <= ReplayWindow * TicksPerSecond

InitSig ==
    /\ now = NowStart * TicksPerSecond
    /\ ticks = 0
    /\ vKind = "none"
    /\ vReq = [sig |-> NoHeader, ts |-> NoHeader, body |-> <<>>]
    /\ vRes = "none"
    /\ vAt = NowStart * TicksPerSecond
    /\ vPrevRes = "none"
    /\ vPrevAt = NowStart * TicksPerSecond

\* time passes: a fraction of a second, or the whole replay window
Tick ==
    /\ ticks < MaxTicks
    /\ \E d \in {1, ReplayWindow * TicksPerSecond} : now' = now + d
    /\ ticks' = ticks + 1
    /\ UNCHANGED <<vKind, vReq, vRes, vAt, vPrevRes, vPrevAt>>

\* the Slack endpoint receives a request
VerifySlack ==
    /\ vKind = "none"
    /\ \E req \in SlackRequests :
          /\ vReq' = req
          /\ vRes' = is_valid_slack_request(req, now)
    /\ vKind' = "slack"
    /\ vAt' = now
    /\ vPrevRes' = "none"
    /\ vPrevAt' = now
    /\ UNCHANGED <<now, ticks>>

\* the GitHub-sponsors endpoint receives a request
VerifyGithub ==
    /\ vKind = "none"
    /\ \E req \in GithubRequests :
          /\ vReq' = req
          /\ vRes' = is_valid_github_request(req)
    /\ vKind' = "github"
    /\ vAt' = now
    /\ vPrevRes' = "none"
    /\ vPrevAt' = now
    /\ UNCHANGED <<now, ticks>>

\* the request verified last arrives once more, unchanged
ReplaySlack ==
    /\ vKind = "slack"
    /\ vPrevRes = "none"
    /\ vRes' = is_valid_slack_request(vReq, now)
    /\ vAt' = now
    /\ vPrevRes' = vRes
    /\ vPrevAt' = vAt
    /\ UNCHANGED <<now, ticks, vKind, vReq>>

ReplayGithub ==
    /\ vKind = "github"
    /\ vPrevRes = "none"
    /\ vRes' = is_valid_github_request(vReq)
    /\ vAt' = now
    /\ vPrevRes' = vRes
    /\ vPrevAt' = vAt
    /\ UNCHANGED <<now, ticks, vKind, vReq>>



(***************************************************************************)
(* Text helpers: Python's str methods on sequences of characters.          *)
(***************************************************************************)
UpperCase ==
    <<"A", "B", "C", "D", "E", "F", "G", "H", "I", "J", "K", "L", "M",
      "N", "O", "P", "Q", "R", "S", "T", "U", "V", "W", "X", "Y", "Z",
      "U00C0", "U00C9", "U0100", "U0128">>

LowerCase ==
    <<"a", "b", "c", "d", "e", "f", "g", "h", "i", "j", "k", "l", "m",
      "n", "o", "p", "q", "r", "s", "t", "u", "v", "w", "x", "y", "z",
      "U00E0", "U00E9", "U0101", "U0129">>

UpperSet == {UpperCase[i] : i \in 1..Len(UpperCase)}

LowerSet == {LowerCase[i] : i \in 1..Len(LowerCase)}

ToLower ==
    [c \in UpperSet |-> LowerCase[CHOOSE i \in 1..Len(UpperCase) : UpperCase[i] = c]]

ToUpper ==
    [c \in LowerSet |-> UpperCase[CHOOSE i \in 1..Len(LowerCase) : LowerCase[i] = c]]

LowerChar(c) == IF c \in UpperSet THEN ToLower[c] ELSE c

UpperChar(c) == IF c \in LowerSet THEN ToUpper[c] ELSE c

\* str.lower / str.upper
Lower(s) == [i \in 1..Len(s) |-> LowerChar(s[i])]

Upper(s) == [i \in 1..Len(s) |-> UpperChar(s[i])]

\* str.index(c): the 0-based position of the first c, or -1 where Python
\* raises ValueError
IndexOf(s, c) ==
    IF \E i \in 1..Len(s) : s[i] = c
    THEN (CHOOSE i \in 1..Len(s) : s[i] = c /\ \A j \in 1..(i - 1) : s[j] # c) - 1
    ELSE -1

\* Contains that looks for sub at the start of s only
Contains_prefix(s, sub) == StartsWith(s, sub)

\* sub in s
Contains(s, sub) ==
    \E i \in 0..(Len(s) - Len(sub)) : SubSeq(s, i + 1, i + Len(sub)) = sub

\* str.split(): split on runs of white space, no empty tokens
RECURSIVE SplitWs(_, _, _)
SplitWs(s, cur, acc) ==
    IF s = <<>> THEN (IF cur = <<>> THEN acc ELSE Append(acc, cur))
    ELSE IF Head(s) \in Whitespace
         THEN SplitWs(Tail(s), <<>>, IF cur = <<>> THEN acc ELSE Append(acc, cur))
         ELSE SplitWs(Tail(s), Append(cur, Head(s)), acc)

Split(s) == SplitWs(s, <<>>, <<>>)

\* str.split(sep): split on every sep, empty tokens kept
RECURSIVE SplitSep(_, _, _, _)
SplitSep(s, sep, cur, acc) ==
    IF s = <<>> THEN Append(acc, cur)
    ELSE IF Head(s) = sep THEN SplitSep(Tail(s), sep, <<>>, Append(acc, cur))
    ELSE SplitSep(Tail(s), sep, Append(cur, Head(s)), acc)

SplitOn(s, sep) == SplitSep(s, sep, <<>>, <<>>)

(***************************************************************************)
(* clean_links: the regular expression SLACK_TEXT_EXTRACTOR, matched the  *)
(* way re.finditer matches it (leftmost, greedy, matches that do not       *)
(* overlap).  The pattern is: "<", an optional http:// or https://, a host *)
(* of two or more dot-separated labels of word characters and hyphens, an  *)
(* optional final dot, an optional port, an optional path of "/" and       *)
(* characters that are not white space, "|", a label of one or more        *)
(* characters other than ">", and ">".                                     *)
(***************************************************************************)
\* a word character
WordChars == LowerSet \cup UpperSet \cup DigitSet \cup {"_"}

IsWord(c) == c \in WordChars

\* a word character or a hyphen
IsHostChar(c) == IsWord(c) \/ c = "-"

SchemeHttp == <<"h", "t", "t", "p", ":", "/", "/">>

SchemeHttps == <<"h", "t", "t", "p", "s", ":", "/", "/">>

\* the labels of a host split at its dots, without the empty one a final dot leaves
HostLabels(parts) ==
    IF Len(parts) > 1 /\ parts[Len(parts)] = <<>>
    THEN SubSeq(parts, 1, Len(parts) - 1)
    ELSE parts

\* two or more labels, each of one or more word characters and hyphens
LabelsMatch(labels) ==
    /\ Len(labels) >= 2
    /\ \A i \in 1..Len(labels) :
          /\ labels[i] # <<>>
          /\ \A j \in 1..Len(labels[i]) : IsHostChar(labels[i][j])

\* whether h, a whole string, is a host: labels, dots, an optional final dot
HostMatches(h) == LabelsMatch(HostLabels(SplitOn(h, ".")))

\* whether h, a whole string, is a host with an optional port
HostPortMatches(h) ==
    LET colon == IndexOf(h, ":")
    IN  IF colon < 0 THEN HostMatches(h)
        ELSE LET port == Drop(h, colon + 1)
             IN  /\ HostMatches(Take(h, colon))
                 /\ port # <<>>
                 /\ \A j \in 1..Len(port) : port[j] \in DigitSet

\* whether the pipe, the label and the closing > match at position p (1-based)
LabelAt(text, p) ==
    /\ p + 1 <= Len(text)
    /\ text[p] = "|"
    /\ text[p + 1] # ">"
    /\ \E q \in (p + 2)..Len(text) : text[q] = ">"

\* the position of the > that ends the label starting after the | at p
LabelEnd(text, p) ==
    CHOOSE q \in (p + 2)..Len(text) :
        text[q] = ">" /\ \A r \in (p + 1)..(q - 1) : text[r] # ">"

\* the length of the scheme that text starts with, 0 if it starts with none
SchemeLen(after) ==
    IF StartsWith(after, SchemeHttps) THEN Len(SchemeHttps)
    ELSE IF StartsWith(after, SchemeHttp) THEN Len(SchemeHttp)
    ELSE 0

\* the positions from first on of the characters that can be in neither the
\* host nor the port
HostStops(text, first) ==
    {k \in first..Len(text) : ~(IsHostChar(text[k]) \/ text[k] \in {".", ":"})}

\* the positions after e of the | that a path without white space leads to and
\* that a label can follow
PathPipes(text, e) ==
    {p \in (e + 1)..Len(text) :
        /\ LabelAt(text, p)
        /\ \A r \in (e + 1)..(p - 1) : text[r] \notin Whitespace}

Least(S) == CHOOSE k \in S : \A k2 \in S : k <= k2

Greatest(S) == CHOOSE k \in S : \A k2 \in S : k2 <= k

NoMatch == [ok |-> FALSE, pipe |-> 0, end |-> 0]

\* the match whose label starts after the | at p
MatchLabel(text, p) == [ok |-> TRUE, pipe |-> p, end |-> LabelEnd(text, p)]

\* the match whose host and port run from first to e - 1
MatchHost(text, first, e) ==
    IF ~HostPortMatches(SubSeq(text, first, e - 1)) THEN NoMatch
    ELSE IF text[e] = "|"
    THEN (IF LabelAt(text, e) THEN MatchLabel(text, e) ELSE NoMatch)
    \* the path is greedy: it ends at the last | that a label can follow
    ELSE IF text[e] = "/" /\ PathPipes(text, e) # {}
    THEN MatchLabel(text, Greatest(PathPipes(text, e)))
    ELSE NoMatch

\* the match whose host starts at first
MatchAfterScheme(text, first) ==
    IF HostStops(text, first) = {} THEN NoMatch
    ELSE MatchHost(text, first, Least(HostStops(text, first)))

\* The match of the pattern that starts at position i of text, as
\* [ok, pipe, end]: the position of the | before the label and of the final >.
MatchAt(text, i) ==
    IF i > Len(text) \/ text[i] # "<" THEN NoMatch
    ELSE MatchAfterScheme(text, i + SchemeLen(Drop(text, i)) + 1)

\* re.finditer: the matches from position i on, left to right, as
\* [start, pipe, end] records; m is the match that starts at i
RECURSIVE FindIter(_, _)
FindFrom(text, i, m) ==
    IF m.ok
    THEN <<[start |-> i, pipe |-> m.pipe, end |-> m.end]>> \o FindIter(text, m.end + 1)
    ELSE FindIter(text, i + 1)

FindIter(text, i) ==
    IF i > Len(text) THEN <<>> ELSE FindFrom(text, i, MatchAt(text, i))

\* text with the match replaced by its label
ReplaceMatch(text, match) ==
    Take(text, match.start - 1)
        \o SubSeq(text, match.pipe + 1, match.end - 1)
        \o Drop(text, match.end)

\* the loop of clean_links: the matches are replaced from the last to the first
RECURSIVE ReplaceBackwards(_, _)
ReplaceBackwards(text, results) ==
    IF results = <<>> THEN text
    ELSE ReplaceBackwards(ReplaceMatch(text, results[Len(results)]),
                          SubSeq(results, 1, Len(results) - 1))

clean_links(text) == ReplaceBackwards(text, FindIter(text, 1))

(***************************************************************************)
(* The record store and the Slack client.                                  *)
(***************************************************************************)
NoExc == "none"

\* i18n[...]: a string of the translation table, by its key, with the
\* arguments given to str.format (formatted = FALSE: the template as it is)
Msg(key) == [key |-> key, formatted |-> FALSE, args |-> <<>>]

Fmt(key, args) == [key |-> key, formatted |-> TRUE, args |-> args]

\* a joke, or any other text that comes from outside the translation table
Raw(text) == [key |-> "text", formatted |-> FALSE, args |-> <<text>>]

\* client.chat_postMessage(channel=, text=)
Post(channel, text) ==
    [op |-> "chat_postMessage", channel |-> channel, ts |-> "", text |-> text,
     blocks |-> <<>>]

\* client.chat_update(channel=, ts=, blocks=)
Update(channel, ts, blocks) ==
    [op |-> "chat_update", channel |-> channel, ts |-> ts, text |-> Msg(""),
     blocks |-> blocks]

\* a block of a Slack message
Block(type, text, id) == [type |-> type, text |-> text, id |-> id]

\* what a handler does with the rows it finds in the store: the rows as it
\* leaves them, the posts it removes from Reddit, the calls it makes on the
\* client, the exception that ends it, the handlers called; savedUser and
\* savedSub name the row it writes with save(), 0 when it writes none
Outcome(U, S, rm, out, exc, who) ==
    [users |-> U, subs |-> S, removed |-> rm, out |-> out, exc |-> exc, called |-> who,
     savedUser |-> 0, savedSub |-> 0]

\* the outcome o, reached by writing the user row u or the submission row s
Saving(o, u, s) == [o EXCEPT !.savedUser = u, !.savedSub = s]

\* a handler that only posts one message
Reply(channel, text, who) ==
    Outcome(users, subs, {}, <<Post(channel, text)>>, NoExc, <<who>>)

\* an unhandled exception before anything was done
Raise(exc, who) == Outcome(users, subs, {}, <<>>, exc, who)

\* BlossomUser.objects.filter(username__iexact=username).first(): the position
\* of the first row whose name equals username without regard to case, 0 if none
FindUser(username) ==
    IF \E i \in 1..Len(users) : Lower(users[i].username) = Lower(username)
    THEN Least({i \in 1..Len(users) : Lower(users[i].username) = Lower(username)})
    ELSE 0

\* the branch of process_blacklist that flips the flag of the row it was given
blacklist_toggle(user) ==
    IF user.blacklisted
    THEN [row |-> [user EXCEPT !.blacklisted = FALSE], key |-> "blacklist.success_undo"]
    ELSE [row |-> [user EXCEPT !.blacklisted = TRUE], key |-> "blacklist.success"]

\* the branch of process_coc_reset that flips the flag of the row it was given
coc_toggle(user) ==
    IF user.accepted_coc
    THEN [row |-> [user EXCEPT !.accepted_coc = FALSE], key |-> "reset_coc.success"]
    ELSE [row |-> [user EXCEPT !.accepted_coc = TRUE], key |-> "reset_coc.success_undo"]

\* the emote send_github_sponsors_message opens its message with
SponsorEmote(action) ==
    IF action \in {<<"e", "d", "i", "t", "e", "d">>,
                   <<"t", "i", "e", "r", "_", "c", "h", "a", "n", "g", "e", "d">>,
                   <<"p", "e", "n", "d", "i", "n", "g", "_",
                     "t", "i", "e", "r", "_", "c", "h", "a", "n", "g", "e">>}
    THEN <<":", "r", "o", "t", "a", "t", "i", "n", "g", "_", "l", "i", "g", "h", "t", ":">>
    ELSE IF action \in {<<"c", "a", "n", "c", "e", "l", "l", "e", "d">>,
                        <<"p", "e", "n", "d", "i", "n", "g", "_",
                          "c", "a", "n", "c", "e", "l", "l", "a", "t", "i", "o", "n">>}
    THEN <<":", "s", "o", "b", ":">>
    ELSE <<":", "t", "a", "d", "a", ":">>

\* data is [has, login, tier]: has = FALSE when the body has no "sponsorship"
send_github_sponsors_message(data, action) ==
    IF ~data.has THEN Raise("KeyError", <<"send_github_sponsors_message">>)
    ELSE Reply("org_running",
               Fmt("github_sponsor_update",
                   <<SponsorEmote(action), action, data.login, data.tier>>),
               "send_github_sponsors_message")

send_help_message(channel, message) ==
    Reply(channel, Msg("help_message"), "send_help_message")

pong(channel, message) == Reply(channel, Raw(<<"P", "O", "N", "G">>), "pong")

\* the branch of send_info for a message of two tokens: u is the row found, 0 if none
send_info_user(channel, u) ==
    IF u # 0
    THEN Reply(channel, Fmt("user_info", <<users[u].username>>), "send_info")
    ELSE Reply(channel, Msg("errors.no_user_by_that_name"), "send_info")

send_info(channel, message) ==
    IF Len(Split(message)) = 1
    THEN Reply(channel, Fmt("server_summary", <<>>), "send_info")
    ELSE IF Len(Split(message)) = 2
    THEN send_info_user(channel, FindUser(Split(message)[2]))
    ELSE Reply(channel, Msg("errors.too_many_params"), "send_info")

\* the row u saved as the toggle t left it, and the reply that names the user
SaveAndReply(channel, username, u, t, who) ==
    Saving(Outcome([users EXCEPT ![u] = t.row], subs, {},
                   <<Post(channel, Fmt(t.key, <<username>>))>>, NoExc, <<who>>),
           u, 0)

\* the branch of process_blacklist for a message of two tokens: u is the row
\* found for username, 0 if none
process_blacklist_user(channel, username, u) ==
    IF u # 0
    THEN SaveAndReply(channel, username, u, blacklist_toggle(users[u]), "process_blacklist")
    ELSE Reply(channel, Msg("errors.unknown_username"), "process_blacklist")

process_blacklist_name(channel, username) ==
    process_blacklist_user(channel, username, FindUser(username))

process_blacklist(channel, message) ==
    IF Len(Split(message)) = 1
    THEN Reply(channel, Msg("errors.missing_username"), "process_blacklist")
    ELSE IF Len(Split(message)) = 2
    THEN process_blacklist_name(channel, clean_links(Split(message)[2]))
    ELSE Reply(channel, Msg("errors.too_many_params"), "process_blacklist")

\* the branch of process_coc_reset for a message of two tokens: u is the row
\* found for username, 0 if none
process_coc_reset_user(channel, username, u) ==
    IF u # 0
    THEN SaveAndReply(channel, username, u, coc_toggle(users[u]), "process_coc_reset")
    ELSE Reply(channel, Msg("errors.unknown_username"), "process_coc_reset")

process_coc_reset_name(channel, username) ==
    process_coc_reset_user(channel, username, FindUser(username))

process_coc_reset(channel, message) ==
    IF Len(Split(message)) = 1
    THEN Reply(channel, Msg("errors.missing_username"), "process_coc_reset")
    ELSE IF Len(Split(message)) = 2
    THEN process_coc_reset_name(channel, clean_links(Split(message)[2]))
    ELSE Reply(channel, Msg("errors.too_many_params"), "process_coc_reset")

\* What requests.get returned to dadjoke_target: raised = TRUE when it (or
\* content.decode()) raised; else the status code and the decoded content.
FallbackJoke == <<"f", "a", "l", "l", "b", "a", "c", "k">>

\* the user to ping: the second of exactly two tokens, in upper case, when it
\* starts with "<"; empty otherwise
PingUsername(parsed_message) ==
    IF Len(parsed_message) = 2 /\ StartsWith(parsed_message[2], <<"<">>)
    THEN Upper(parsed_message[2])
    ELSE <<>>

\* the text dadjoke_target posts
JokeMessage(ping_username, joke) ==
    IF ping_username # <<>>
    THEN Fmt("dadjoke.message", <<ping_username, joke>>)
    ELSE Raw(joke)

dadjoke_target(channel, message, response) ==
    Reply(channel,
          JokeMessage(PingUsername(Split(message)),
                      IF response.raised THEN FallbackJoke ELSE response.content),
          "dadjoke_target")

\* blossom.api.slack.utils.parse_user: the markup is stripped from the token and
\* the user looked up without regard to case; gives the row's position (0 if
\* none) and the name that was looked up
Resolved(username) == [user |-> FindUser(username), username |-> username]

parse_user(token) == Resolved(clean_links(token))

\* user.transcription_check_reason(ignore_low_activity=True), as a text
WatchStatusOf(u) == <<"w", "a", "t", "c", "h">> \o users[u].username

\* the branch of watchstatus_cmd for a message of two tokens: r is what
\* parse_user returned
watchstatus_user(channel, r) ==
    IF r.user # 0
    THEN Reply(channel,
               Fmt("watchstatus.success", <<r.username, WatchStatusOf(r.user)>>),
               "watchstatus_cmd")
    ELSE Reply(channel, Fmt("errors.unknown_username", <<r.username>>), "watchstatus_cmd")

\* watchstatus_cmd that looks at the second token and ignores any others
watchstatus_cmd_extra_ignored(channel, message) ==
    IF Len(Split(message)) = 1
    THEN Reply(channel, Msg("errors.missing_username"), "watchstatus_cmd")
    ELSE watchstatus_user(channel, parse_user(Split(message)[2]))

watchstatus_cmd(channel, message) ==
    IF Len(Split(message)) = 1
    THEN Reply(channel, Msg("errors.missing_username"), "watchstatus_cmd")
    ELSE IF Len(Split(message)) = 2
    THEN watchstatus_user(channel, parse_user(Split(message)[2]))
    ELSE Reply(channel, Msg("errors.too_many_params"), "watchstatus_cmd")

\* the branch of info_cmd for a message of two tokens: r is what parse_user
\* returned
info_user(channel, r) ==
    IF r.user # 0
    THEN Reply(channel, Fmt("user_info_text", <<users[r.user].username>>), "info_cmd")
    ELSE Reply(channel, Fmt("errors.unknown_username", <<r.username>>), "info_cmd")

info_cmd(channel, message) ==
    IF Len(Split(message)) = 1
    THEN Reply(channel, Fmt("server_summary", <<>>), "info_cmd")
    ELSE IF Len(Split(message)) = 2
    THEN info_user(channel, parse_user(Split(message)[2]))
    ELSE Reply(channel, Msg("errors.too_many_params"), "info_cmd")

(***************************************************************************)
(* Inbound payloads.  A payload is                                         *)
(*   [type, event |-> [has, text |-> [has, val], channel],                 *)
(*    actions |-> [has, none, vals], channel_id, ts, blocks]               *)
(* The value of a key read with [] ("text", "actions") is [has, none, val]:*)
(* has tells that the key is there, none that its value is None.  The      *)
(* value of a key read with .get ("event", and "value" in each action of   *)
(* vals) is [has, val], has = FALSE when the key is missing or None, which *)
(* .get does not tell apart.                                               *)
(***************************************************************************)
\* a key that is missing, a key whose value is None, a key with a value
Absent == [has |-> FALSE, none |-> FALSE, val |-> <<>>]

None == [has |-> TRUE, none |-> TRUE, val |-> <<>>]

Given(v) == [has |-> TRUE, none |-> FALSE, val |-> v]

\* event["text"][event["text"].index(">") + 2:].lower(); str.index raises
\* ValueError, which the handler of IndexError does not catch
MessageAfter(text, at) ==
    IF at < 0 THEN [exc |-> "ValueError", msg |-> <<>>]
    ELSE [exc |-> NoExc, msg |-> Lower(Drop(text, at + 2))]

get_message(data) ==
    \* event is None: event["text"]
    IF ~data.event.has THEN [exc |-> "TypeError", msg |-> <<>>]
    ELSE IF ~data.event.text.has THEN [exc |-> "KeyError", msg |-> <<>>]
    \* None has no index
    ELSE IF data.event.text.none THEN [exc |-> "AttributeError", msg |-> <<>>]
    ELSE MessageAfter(data.event.text.val, IndexOf(data.event.text.val, ">"))

KeepWord == <<"k", "e", "e", "p">>

RemoveWord == <<"r", "e", "m", "o", "v", "e">>

\* process_submission_update from Submission.objects.get on: keep tells the
\* "keep" branch from the other, id is what int(value[2]) gave
submission_update(data, keep, id) ==
    IF ~id.ok THEN Raise("ValueError", <<"process_submission_update">>)
    ELSE IF id.huge \/ id.val \notin DOMAIN subs
    THEN Raise("DoesNotExist", <<"process_submission_update">>)
    ELSE IF data.blocks = <<>>
         \* blocks[-1] = ... on an empty list, after the save or the removal
    THEN Saving(Outcome(users,
                        IF keep THEN [subs EXCEPT ![id.val].removed_from_queue = FALSE]
                        ELSE subs,
                        IF keep THEN {} ELSE {id.val},
                        <<>>, "IndexError", <<"process_submission_update">>),
                0, IF keep THEN id.val ELSE 0)
    ELSE Saving(Outcome(users,
                        IF keep THEN [subs EXCEPT ![id.val].removed_from_queue = FALSE]
                        ELSE subs,
                        IF keep THEN {} ELSE {id.val},
                        <<Update(data.channel_id, data.ts,
                                 [data.blocks EXCEPT
                                     ![Len(data.blocks)] =
                                         IF keep
                                         THEN Block("section",
                                                    "Thank you! This submission has been kept.",
                                                    0)
                                         ELSE Block("section",
                                                    "Submission ID has been removed from the queue.",
                                                    id.val)])>>,
                        NoExc, <<"process_submission_update">>),
                0, IF keep THEN id.val ELSE 0)

\* value being the tokens of the action's value
submission_update_value(data, value) ==
    IF Len(value) < 3 THEN Raise("IndexError", <<"process_submission_update">>)
    ELSE submission_update(data, value[1] = KeepWord, PyInt(value[3]))

process_submission_update(data) ==
    submission_update_value(data, SplitOn(data.actions.vals[1].val, "_"))

\* Keywords in which the last key, "in", is the start of another, "info"
Keywords_in_before_info ==
    << <<"p", "i", "n", "g">>, <<"h", "e", "l", "p">>, <<"r", "e", "s", "e", "t">>,
       <<"i", "n", "f", "o">>, <<"b", "l", "a", "c", "k", "l", "i", "s", "t">>,
       <<"i", "n">> >>

\* the keys of options, in the order of the dict
Keywords ==
    << <<"p", "i", "n", "g">>, <<"h", "e", "l", "p">>, <<"r", "e", "s", "e", "t">>,
       <<"i", "n", "f", "o">>, <<"b", "l", "a", "c", "k", "l", "i", "s", "t">>,
       <<"d", "a", "d", "j", "o", "k", "e">> >>

\* options[key](channel, message), key being the k-th keyword
CallOption(k, channel, message, response) ==
    CASE k = 1 -> pong(channel, message)
      [] k = 2 -> send_help_message(channel, message)
      [] k = 3 -> process_coc_reset(channel, message)
      [] k = 4 -> send_info(channel, message)
      [] k = 5 -> process_blacklist(channel, message)
      [] k = 6 -> dadjoke_target(channel, message, response)

\* FirstMatch comparing the first token with the keyword, not the start of the
\* message
FirstMatch_first_token(message) ==
    IF \E k \in 1..Len(Keywords) : Split(message) # <<>> /\ Split(message)[1] = Keywords[k]
    THEN Least({k \in 1..Len(Keywords) : Split(message)[1] = Keywords[k]})
    ELSE 0

\* the loop over options.keys(): the first keyword the message starts with, 0 if none
FirstMatch(message) ==
    IF \E k \in 1..Len(Keywords) : StartsWith(message, Keywords[k])
    THEN Least({k \in 1..Len(Keywords) : StartsWith(message, Keywords[k])})
    ELSE 0

\* Dispatch without the return after the handler: the loop falls through to
\* the unknown-request reply
Dispatch_no_return(k, channel, message, response) ==
    IF k # 0
    THEN [CallOption(k, channel, message, response) EXCEPT
             !.out = Append(@, Post(channel, Msg("errors.unknown_request")))]
    ELSE Outcome(users, subs, {},
                 <<Post(channel, Msg("errors.unknown_request"))>>, NoExc, <<>>)

\* the loop of process_message: k is the first keyword message starts with
Dispatch(k, channel, message, response) ==
    IF k # 0
    THEN CallOption(k, channel, message, response)
    ELSE Outcome(users, subs, {},
                 <<Post(channel, Msg("errors.unknown_request"))>>, NoExc, <<>>)

\* process_message on a message event: got is what get_message gave, actions
\* the truth of data.get("actions")
process_event(channel, got, actions, response) ==
    IF got.exc # NoExc THEN Raise(got.exc, <<>>)
    ELSE IF got.msg = <<>> /\ ~actions
    THEN Outcome(users, subs, {},
                 <<Post(channel, Msg("errors.message_parse_error"))>>, NoExc, <<>>)
    ELSE IF got.msg = <<>>
    THEN Outcome(users, subs, {},
                 <<Post(channel, Msg("errors.empty_message_error"))>>, NoExc, <<>>)
    ELSE Dispatch(FirstMatch(got.msg), channel, got.msg, response)

process_message(data, response) ==
    IF data.type = "block_actions"
    THEN IF ~data.actions.has THEN Raise("KeyError", <<>>)
         \* None[0]
         ELSE IF data.actions.none THEN Raise("TypeError", <<>>)
         ELSE IF data.actions.vals = <<>> THEN Raise("IndexError", <<>>)
         ELSE IF ~data.actions.vals[1].has THEN Raise("TypeError", <<>>)
         ELSE IF \/ Contains(data.actions.vals[1].val, KeepWord)
                 \/ Contains(data.actions.vals[1].val, RemoveWord)
         THEN process_submission_update(data)
         ELSE Outcome(users, subs, {},
                      <<Post(data.channel_id,
                             Fmt("errors.unknown_payload", <<data.actions.vals[1].val>>))>>,
                      NoExc, <<>>)
    ELSE IF ~data.event.has THEN Raise("AttributeError", <<>>)
    ELSE process_event(data.event.channel, get_message(data),
                       data.actions.has /\ ~data.actions.none /\ data.actions.vals # <<>>,
                       response)

\* the texts of the message events: a mention, then what the user typed
EventTexts ==
    { <<"h", "e", "l", "l", "o">>,
      <<"<", "@", "U", "1", ">", " ", "r", "e", "s", "e", "t", "\r", "a", "m", "y">>,
      <<"<", "@", "U", "1", ">">>,
      <<"<", "@", "U", "1", ">", " ">>,
      <<"<", "@", "U", "1", ">", " ", " ", " ">>,
      <<"<", "@", "U", "1", ">", " ", "p", "i", "n", "g">>,
      <<"<", "@", "U", "1", ">", " ", "P", "I", "N", "G">>,
      <<"<", "@", "U", "1", ">", " ", " ", "p", "i", "n", "g">>,
      <<"<", "@", "U", "1", ">", " ", "p", "i", "n", "g", " ">>,
      <<"<", "@", "U", "1", ">", " ", "p", "i", "n", "g", "-", "p", "o", "n", "g">>,
      <<"<", "@", "U", "1", ">", " ", "p", "i", "n", "g", " ", "a", " ", "b">>,
      <<"<", "@", "U", "1", ">", " ", "p", "i", "n">>,
      <<"<", "@", "U", "1", ">", " ", "h", "e", "l", "p">>,
      <<"<", "@", "U", "1", ">", " ", "h", "e", "l", "p", " ", "a", " ", "b">>,
      <<"<", "@", "U", "1", ">", " ", "r", "e", "s", "e", "t">>,
      <<"<", "@", "U", "1", ">", " ", "r", "e", "s", "e", "t", " ", "b", "o", "b">>,
      <<"<", "@", "U", "1", ">", " ", "r", "e", "s", "e", "t", " ", "a", "m", "y">>,
      <<"<", "@", "U", "1", ">", " ", "r", "e", "s", "e", "t", " ", "z", "e", "d">>,
      <<"<", "@", "U", "1", ">", " ", "r", "e", "s", "e", "t", " ", "b", "o", "b", " ", "x">>,
      <<"<", "@", "U", "1", ">", " ", "i", "n", "f", "o">>,
      <<"<", "@", "U", "1", ">", " ", "i", "n", "f", "o", " ", "b", "o", "b">>,
      <<"<", "@", "U", "1", ">", " ", "i", "n", "f", "o", " ", "z", "e", "d">>,
      <<"<", "@", "U", "1", ">", " ", "i", "n", "f", "o", " ", "b", "o", "b", " ", "x">>,
      <<"<", "@", "U", "1", ">", " ", "b", "l", "a", "c", "k", "l", "i", "s", "t">>,
      <<"<", "@", "U", "1", ">", " ", "b", "l", "a", "c", "k", "l", "i", "s", "t", " ", "b", "o", "b">>,
      <<"<", "@", "U", "1", ">", " ", "b", "l", "a", "c", "k", "l", "i", "s", "t", " ", "B", "O", "B">>,
      <<"<", "@", "U", "1", ">", " ", "b", "l", "a", "c", "k", "l", "i", "s", "t", " ", "a", "m", "y">>,
      <<"<", "@", "U", "1", ">", " ", "b", "l", "a", "c", "k", "l", "i", "s", "t", " ", "z", "e", "d">>,
      <<"<", "@", "U", "1", ">", " ", "b", "l", "a", "c", "k", "l", "i", "s", "t", " ", "b", "o", "b", " ", "x">>,
      <<"<", "@", "U", "1", ">", " ", "b", "l", "a", "c", "k", "l", "i", "s", "t", " ", "<", "h", "t", "t", "p", ":", "/", "/", "b", "o", "b", ".", "c", "o", "m", "|", "b", "o", "b", ">">>,
      <<"<", "@", "U", "1", ">", " ", "d", "a", "d", "j", "o", "k", "e">>,
      <<"<", "@", "U", "1", ">", " ", "d", "a", "d", "j", "o", "k", "e", " ", "<", "@", "u", "2", ">">>,
      <<"<", "@", "U", "1", ">", " ", "d", "a", "d", "j", "o", "k", "e", " ", "b", "o", "b">>,
      <<"<", "@", "U", "1", ">", " ", "d", "a", "d", "j", "o", "k", "e", " ", "a", " ", "b">>,
      <<"<", "@", "U", "1", ">", " ", "w", "a", "t", "c", "h", "s", "t", "a", "t", "u", "s", " ", "b", "o", "b">>,
      <<"<", "@", "U", "1", ">", " ", "f", "o", "o">> }

\* the messages the commands of blossom.api.slack.commands are called with
CommandMessages ==
    { <<"w", "a", "t", "c", "h", "s", "t", "a", "t", "u", "s">>,
      <<"w", "a", "t", "c", "h", "s", "t", "a", "t", "u", "s", " ", "b", "o", "b">>,
      <<"w", "a", "t", "c", "h", "s", "t", "a", "t", "u", "s", " ", "z", "e", "d">>,
      <<"w", "a", "t", "c", "h", "s", "t", "a", "t", "u", "s", " ", "b", "o", "b", " ", "x">>,
      <<"w", "a", "t", "c", "h", "s", "t", "a", "t", "u", "s", " ", "<", "h", "t", "t", "p", ":", "/", "/", "a", "m", "y", ".", "i", "o", "|", "a", "m", "y", ">">>,
      <<"i", "n", "f", "o">>,
      <<"i", "n", "f", "o", " ", "b", "o", "b">>,
      <<"i", "n", "f", "o", " ", "z", "e", "d">>,
      <<"i", "n", "f", "o", " ", "b", "o", "b", " ", "x">> }

\* the values of the buttons pressed
ActionValues ==
    { <<"k", "e", "e", "p", "_", "s", "u", "b", "m", "i", "s", "s", "i", "o", "n", "_", "1">>,
      <<"r", "e", "m", "o", "v", "e", "_", "s", "u", "b", "m", "i", "s", "s", "i", "o", "n", "_", "1">>,
      <<"k", "e", "e", "p", "_", "s", "u", "b", "m", "i", "s", "s", "i", "o", "n", "_", "2">>,
      <<"r", "e", "m", "o", "v", "e", "_", "s", "u", "b", "m", "i", "s", "s", "i", "o", "n", "_", "2">>,
      <<"k", "e", "e", "p", "_", "1">>,
      <<"k", "e", "e", "p", "_", "s", "u", "b", "m", "i", "s", "s", "i", "o", "n", "_", "9">>,
      <<"k", "e", "e", "p", "_", "s", "u", "b", "m", "i", "s", "s", "i", "o", "n", "_", "x">>,
      <<"a", "p", "p", "r", "o", "v", "e", "_", "s", "u", "b", "m", "i", "s", "s", "i", "o", "n", "_", "1">>,
      <<"u", "n", "k", "e", "e", "p", "_", "s", "u", "b", "m", "i", "s", "s", "i", "o", "n", "_", "1">>,
      <<"k", "e", "e", "p", "_", "a", "_", "1", "_", "2">>,
      <<"r", "e", "m", "o", "v", "e", "_", "a", "_", "2", "_", "1">> }

NoActions == [has |-> FALSE, none |-> FALSE, vals |-> <<>>]

\* "actions": None
NoneActions == [has |-> TRUE, none |-> TRUE, vals |-> <<>>]

NoEvent == [has |-> FALSE, text |-> Absent, channel |-> ""]

TextEvent(text, actions) ==
    [type |-> "event_callback",
     event |-> [has |-> TRUE, text |-> text, channel |-> "C1"],
     actions |-> actions, channel_id |-> "", ts |-> "", blocks |-> <<>>]

BlockAction(actions, blocks) ==
    [type |-> "block_actions", event |-> NoEvent, actions |-> actions,
     channel_id |-> "C2", ts |-> "1600000000.000100", blocks |-> blocks]

\* no payload yet
NoPayload ==
    [type |-> "none", event |-> NoEvent, actions |-> NoActions, channel_id |-> "",
     ts |-> "", blocks |-> <<>>]

\* the blocks of the message that reports a submission
ReportBlocks == <<Block("section", "report", 0), Block("actions", "buttons", 0)>>

SomeActions == [has |-> TRUE, none |-> FALSE, vals |-> <<Header(<<"x">>)>>]

TextPayloads ==
    {TextEvent(Given(t), NoActions) : t \in EventTexts}
        \cup {TextEvent(Absent, NoActions),
              [TextEvent(Absent, NoActions) EXCEPT !.event = NoEvent],
              TextEvent(None, NoActions),
              TextEvent(None, SomeActions),
              TextEvent(Given(<<"<", "@", "U", "1", ">", " ", "p", "i", "n", "g">>),
                        NoneActions),
              TextEvent(Given(<<"<", "@", "U", "1", ">">>), NoneActions),
              TextEvent(Given(<<"<", "@", "U", "1", ">">>), SomeActions),
              TextEvent(Given(<<"<", "@", "U", "1", ">", " ", "p", "i", "n", "g">>),
                        SomeActions)}

BlockPayloads ==
    {BlockAction([has |-> TRUE, none |-> FALSE, vals |-> <<Header(v)>>], ReportBlocks) : v \in ActionValues}
        \cup {BlockAction(NoActions, ReportBlocks),
              BlockAction(NoneActions, ReportBlocks),
              BlockAction([has |-> TRUE, none |-> FALSE, vals |-> <<>>], ReportBlocks),
              BlockAction([has |-> TRUE, none |-> FALSE, vals |-> <<NoHeader>>], ReportBlocks),
              BlockAction([has |-> TRUE, none |-> FALSE,
                           vals |-> <<Header(<<"k", "e", "e", "p", "_", "s", "_", "1">>)>>],
                          <<>>),
              BlockAction([has |-> TRUE, none |-> FALSE,
                           vals |-> <<Header(<<"r", "e", "m", "o", "v", "e", "_", "s", "_", "2">>)>>],
                          <<>>)}

\* what the joke service may answer
NoResponse == [raised |-> FALSE, status |-> 0, content |-> <<>>]

Responses ==
    {[raised |-> TRUE, status |-> 0, content |-> <<>>],
     [raised |-> FALSE, status |-> 200, content |-> <<"j", "o", "k", "e">>],
     [raised |-> FALSE, status |-> 200, content |-> <<>>],
     [raised |-> FALSE, status |-> 503, content |-> <<"e", "r", "r", "o", "r">>]}

\* the message a text payload carries, <<>> when get_message raises
MessageOf(data) == IF data.event.has THEN get_message(data).msg ELSE <<>>

\* whether handling the payload reaches requests.get
FetchesJoke(data) ==
    /\ data.type # "block_actions"
    /\ data.event.has
    /\ FirstMatch(MessageOf(data)) = 6

UserNames == << <<"B", "o", "b">>, <<"a", "m", "y">> >>

\* the payloads whose handling reaches requests.get
JokePayloads == {data \in TextPayloads : FetchesJoke(data)}

\* the user a payload's toggle command names: the message is routed to the
\* handler of keyword k, has two tokens and the second one, stripped of markup,
\* is the name of a user without regard to case; 0 otherwise
NamedUser(username) ==
    IF \E i \in 1..Len(UserNames) : Lower(UserNames[i]) = Lower(username)
    THEN Least({i \in 1..Len(UserNames) : Lower(UserNames[i]) = Lower(username)})
    ELSE 0

ToggleTargetIn(message, k) ==
    IF FirstMatch(message) = k /\ Len(Split(message)) = 2
    THEN NamedUser(clean_links(Split(message)[2]))
    ELSE 0

ToggleTarget(data, k) ==
    IF data.type = "block_actions" \/ ~data.event.has THEN 0
    ELSE ToggleTargetIn(MessageOf(data), k)

\* ToggleTarget, for the payloads of message events and keywords 3 (reset) and
\* 5 (blacklist)
ToggleTargets == [data \in TextPayloads, k \in {3, 5} |-> ToggleTarget(data, k)]

ToggleTargetOf(data, k) == IF data \in TextPayloads THEN ToggleTargets[data, k] ELSE 0

SubmissionIds == {1, 2}

\* the rows the store holds at the start: a volunteer in good standing and a
\* blacklisted one; a submission that was reported (and so taken out of the
\* queue for the time being) and one that is in the queue
InitStore ==
    /\ users = << [username |-> UserNames[1], blacklisted |-> FALSE, accepted_coc |-> TRUE],
                  [username |-> UserNames[2], blacklisted |-> TRUE, accepted_coc |-> FALSE] >>
    /\ subs = [id \in SubmissionIds |-> [removed_from_queue |-> (id = 1)]]

InitMsg ==
    /\ lastData = NoPayload
    /\ outbox = <<>>
    /\ fault = NoExc
    /\ called = <<>>
    /\ removedPosts = {}
    /\ usersBefore = users
    /\ subsBefore = subs
    /\ usersAfter = users
    /\ subsAfter = subs
    /\ users0 = users
    /\ toggles = [i \in 1..Len(UserNames) |-> [blacklisted |-> 0, accepted_coc |-> 0]]
    /\ lastResponse = NoResponse

\* how many requests there are, each handled in a thread of its own and at the
\* same time as the others
MaxThreads == 2

\* the threads that handle requests, one request each: process_message runs
\* in a thread of its own (fire_and_forget), and so does every request of the
\* web server
Threads == 1..MaxThreads

\* what a thread holds of its request: the outcome o its handler has made of
\* the rows it loaded, what requests.get gave it, and the store just before
\* and just after its write
Held(o, response, U0, S0, U1, S1) ==
    [o |-> o, response |-> response,
     usersBefore |-> U0, subsBefore |-> S0, usersAfter |-> U1, subsAfter |-> S1]

InitThreads ==
    /\ pc = [t \in Threads |-> "idle"]
    /\ inflight = [t \in Threads |-> NoPayload]
    /\ local = [t \in Threads |->
                   Held(Outcome(users, subs, {}, <<>>, NoExc, <<>>), NoResponse,
                        users, subs, users, subs)]
    /\ sent = [t \in Threads |-> <<>>]

(***************************************************************************)
(* clean_links on its own: the texts it is given are made of pieces of     *)
(* Slack links.                                                            *)
(***************************************************************************)
MaxPieces == 5

\* a link up to its |, a link up to the / of its path, a label, a closing >, a |
LinkPieces ==
    << <<"<", "a", ".", "b", "|">>, <<"<", "a", ".", "b", "/">>, <<"x">>, <<">">>, <<"|">> >>

RECURSIVE Concat(_)
Concat(pieces) == IF pieces = <<>> THEN <<>> ELSE Head(pieces) \o Concat(Tail(pieces))

\* "<https://example.com|Click Here>"
ExampleLink ==
    <<"<", "h", "t", "t", "p", "s", ":", "/", "/", "e", "x", "a", "m", "p", "l", "e", ".",
      "c", "o", "m", "|", "C", "l", "i", "c", "k", " ", "H", "e", "r", "e", ">">>

LinkTexts ==
    {Concat([i \in DOMAIN ps |-> LinkPieces[ps[i]]]) :
        ps \in SeqsUpTo(1..Len(LinkPieces), MaxPieces)} \cup {ExampleLink}

InitClean == cIn = <<>> /\ cOut = <<>>

\* clean_links is called with a text
CleanLinks ==
    /\ cIn = <<>>
    /\ \E text \in LinkTexts : cIn' = text /\ cOut' = clean_links(text)
    /\ UNCHANGED <<sigVars, storeVars, msgVars, concVars, lastResponse, durVars, apiVars>>

\* clean_links is called with the text it returned
CleanAgain ==
    /\ cIn # cOut
    /\ cIn' = cOut
    /\ cOut' = clean_links(cOut)
    /\ UNCHANGED <<sigVars, storeVars, msgVars, concVars, lastResponse, durVars, apiVars>>

(***************************************************************************)
(* _relative_duration.  What it returns is modelled as the unit it prints  *)
(* (with its plural s) and the number before it, counted in tenths for the *)
(* units printed with one decimal and in units for "ms".                   *)
(***************************************************************************)
MaxDelta == 130

\* the seconds in one of each unit, as the chain of divisions makes them
UnitSeconds ==
    [year |-> 31536000, month |-> 2592000, week |-> 604800, day |-> 86400,
     hour |-> 3600, min |-> 60, sec |-> 1]

\* the units in the order of the if chain
UnitOrder == <<"year", "month", "week", "day", "hour", "min">>

\* The deltas, up to 2^31 - 1 seconds, at which the quotient lies exactly
\* between two tenths and the format rounds up: the double that the chain of
\* divisions gives lies above the middle, or is the middle and the tenth above
\* is even.  The other ties are rounded down.
TiesAbove ==
    {63, 81, 93, 105, 111, 141, 147, 165,
     171, 177, 201, 207, 225, 231, 237, 249,
     267, 279, 285, 297, 309, 327, 339, 345,
     357, 369, 387, 399, 405, 417, 429, 447,
     459, 465, 477, 483, 489, 513, 519, 525,
     543, 549, 573, 579, 585, 603, 609, 633,
     639, 645, 663, 669, 693, 699, 705, 723,
     729, 753, 759, 765, 783, 789, 813, 819,
     825, 843, 849, 873, 879, 885, 903, 909,
     933, 939, 945, 963, 981, 993, 1005, 1011,
     1023, 1041, 1053, 1065, 1071, 1083, 1101, 1113,
     1125, 1131, 1143, 1161, 1173, 1185, 1191, 1203,
     1221, 1233, 1245, 1251, 1263, 1281, 1293, 1305,
     1311, 1323, 1341, 1353, 1365, 1371, 1383, 1401,
     1413, 1425, 1431, 1443, 1461, 1473, 1485, 1491,
     1503, 1521, 1533, 1545, 1551, 1563, 1581, 1593,
     1605, 1611, 1623, 1641, 1653, 1665, 1671, 1683,
     1701, 1713, 1725, 1731, 1743, 1761, 1773, 1785,
     1791, 1803, 1821, 1833, 1845, 1851, 1863, 1881,
     1893, 1905, 1911, 1941, 1947, 1965, 1971, 1977,
     2001, 2007, 2025, 2031, 2037, 2061, 2067, 2085,
     2091, 2097, 2121, 2127, 2145, 2151, 2157, 2181,
     2187, 2205, 2211, 2217, 2241, 2247, 2265, 2271,
     2277, 2301, 2307, 2325, 2331, 2337, 2361, 2367,
     2385, 2391, 2397, 2421, 2427, 2445, 2451, 2457,
     2481, 2487, 2505, 2511, 2517, 2541, 2547, 2565,
     2571, 2577, 2601, 2607, 2625, 2631, 2637, 2661,
     2667, 2685, 2691, 2697, 2721, 2727, 2745, 2751,
     2757, 2781, 2787, 2805, 2811, 2817, 2841, 2847,
     2865, 2871, 2877, 2901, 2907, 2925, 2931, 2937,
     2961, 2967, 2985, 2991, 2997, 3021, 3027, 3045,
     3051, 3057, 3081, 3087, 3105, 3111, 3117, 3141,
     3147, 3165, 3171, 3177, 3201, 3207, 3225, 3231,
     3237, 3261, 3267, 3285, 3291, 3297, 3321, 3327,
     3345, 3351, 3357, 3381, 3387, 3405, 3411, 3417,
     3441, 3447, 3465, 3471, 3477, 3501, 3507, 3525,
     3531, 3537, 3561, 3567, 3585, 3591, 3597, 3780,
     4860, 5580, 6300, 6660, 8460, 8820, 9900, 10260,
     10620, 12060, 12420, 13500, 13860, 14220, 14940, 16020,
     16740, 17100, 17820, 18540, 19620, 20340, 20700, 21420,
     22140, 23220, 23940, 24300, 25020, 25740, 26820, 27540,
     27900, 28620, 28980, 29340, 30780, 31140, 31500, 32580,
     32940, 34380, 34740, 35100, 36180, 36540, 37980, 38340,
     38700, 39780, 40140, 41580, 41940, 42300, 43380, 43740,
     45180, 45540, 45900, 46980, 47340, 48780, 49140, 49500,
     50580, 50940, 52380, 52740, 53100, 54180, 54540, 55980,
     56340, 56700, 57780, 58860, 59580, 60300, 60660, 61380,
     62460, 63180, 63900, 64260, 64980, 66060, 66780, 67500,
     67860, 68580, 69660, 70380, 71100, 71460, 72180, 73260,
     73980, 74700, 75060, 75780, 76860, 77580, 78300, 78660,
     79380, 80460, 81180, 81900, 82260, 82980, 84060, 84780,
     85500, 85860, 90720, 99360, 133920, 142560, 151200, 177120,
     203040, 220320, 237600, 246240, 263520, 289440, 306720, 324000,
     332640, 375840, 384480, 410400, 419040, 427680, 462240, 470880,
     496800, 505440, 514080, 548640, 557280, 583200, 591840, 600480,
     635040, 816480, 937440, 1058400, 1118880, 1421280, 1481760, 1663200,
     1723680, 1784160, 2026080, 2086560, 2268000, 2328480, 2388960, 2509920,
     2721600, 3499200, 4017600, 4536000, 4795200, 6091200, 6350400, 7128000,
     7387200, 7646400, 8683200, 8942400, 9720000, 9979200, 10238400, 10756800,
     11534400, 12052800, 12312000, 12830400, 13348800, 14126400, 14644800, 14904000,
     15422400, 15940800, 16718400, 17236800, 17496000, 18014400, 18532800, 19310400,
     19828800, 20088000, 20606400, 20865600, 21124800, 22161600, 22420800, 22680000,
     23457600, 23716800, 24753600, 25012800, 25272000, 26049600, 26308800, 27345600,
     27604800, 27864000, 28641600, 28900800, 29937600, 30196800, 30456000, 31233600,
     31492800, 33112800, 42573600, 48880800, 55188000, 58341600, 74109600, 77263200,
     86724000, 89877600, 93031200, 105645600, 108799200, 118260000, 121413600, 124567200,
     130874400, 140335200, 146642400, 149796000, 156103200, 162410400, 171871200, 178178400,
     181332000, 187639200, 193946400, 203407200, 209714400, 212868000, 219175200, 225482400,
     234943200, 241250400, 244404000, 250711200, 253864800, 257018400, 269632800, 272786400,
     275940000, 285400800, 288554400, 301168800, 304322400, 307476000, 316936800, 320090400,
     332704800, 335858400, 339012000, 348472800, 351626400, 364240800, 367394400, 370548000,
     380008800, 383162400, 395776800, 398930400, 402084000, 411544800, 414698400, 427312800,
     430466400, 433620000, 443080800, 446234400, 458848800, 462002400, 465156000, 474616800,
     477770400, 490384800, 493538400, 496692000, 506152800, 515613600, 521920800, 528228000,
     531381600, 537688800, 547149600, 553456800, 559764000, 562917600, 569224800, 578685600,
     584992800, 591300000, 594453600, 600760800, 610221600, 616528800, 622836000, 625989600,
     632296800, 641757600, 648064800, 654372000, 657525600, 663832800, 673293600, 679600800,
     685908000, 689061600, 695368800, 704829600, 711136800, 717444000, 720597600, 726904800,
     736365600, 742672800, 748980000, 752133600, 758440800, 767901600, 774208800, 780516000,
     783669600, 789976800, 799437600, 805744800, 812052000, 815205600, 821512800, 830973600,
     837280800, 843588000, 846741600, 853048800, 862509600, 868816800, 875124000, 878277600,
     884584800, 894045600, 900352800, 906660000, 909813600, 916120800, 925581600, 931888800,
     938196000, 941349600, 947656800, 957117600, 963424800, 969732000, 972885600, 979192800,
     988653600, 994960800, 1001268000, 1004421600, 1020189600, 1023343200, 1032804000, 1035957600,
     1039111200, 1051725600, 1054879200, 1064340000, 1067493600, 1070647200, 1083261600, 1086415200,
     1095876000, 1099029600, 1102183200, 1114797600, 1117951200, 1127412000, 1130565600, 1133719200,
     1146333600, 1149487200, 1158948000, 1162101600, 1165255200, 1177869600, 1181023200, 1190484000,
     1193637600, 1196791200, 1209405600, 1212559200, 1222020000, 1225173600, 1228327200, 1240941600,
     1244095200, 1253556000, 1256709600, 1259863200, 1272477600, 1275631200, 1285092000, 1288245600,
     1291399200, 1304013600, 1307167200, 1316628000, 1319781600, 1322935200, 1335549600, 1338703200,
     1348164000, 1351317600, 1354471200, 1367085600, 1370239200, 1379700000, 1382853600, 1386007200,
     1398621600, 1401775200, 1411236000, 1414389600, 1417543200, 1430157600, 1433311200, 1442772000,
     1445925600, 1449079200, 1461693600, 1464847200, 1474308000, 1477461600, 1480615200, 1493229600,
     1496383200, 1505844000, 1508997600, 1512151200, 1524765600, 1527919200, 1537380000, 1540533600,
     1543687200, 1556301600, 1559455200, 1568916000, 1572069600, 1575223200, 1587837600, 1590991200,
     1600452000, 1603605600, 1606759200, 1619373600, 1622527200, 1631988000, 1635141600, 1638295200,
     1650909600, 1654063200, 1663524000, 1666677600, 1669831200, 1682445600, 1685599200, 1695060000,
     1698213600, 1701367200, 1713981600, 1717135200, 1726596000, 1729749600, 1732903200, 1745517600,
     1748671200, 1758132000, 1761285600, 1764439200, 1777053600, 1780207200, 1789668000, 1792821600,
     1795975200, 1808589600, 1811743200, 1821204000, 1824357600, 1827511200, 1840125600, 1843279200,
     1852740000, 1855893600, 1859047200, 1871661600, 1874815200, 1884276000, 1887429600, 1890583200,
     1903197600, 1906351200, 1915812000, 1918965600, 1922119200, 1934733600, 1937887200, 1947348000,
     1950501600, 1953655200, 1966269600, 1969423200, 1978884000, 1982037600, 1985191200, 1997805600,
     2000959200, 2010420000, 2013573600, 2016727200, 2023034400, 2032495200, 2038802400, 2041956000,
     2048263200, 2054570400, 2064031200, 2070338400, 2073492000, 2079799200, 2086106400, 2095567200,
     2101874400, 2105028000, 2111335200, 2117642400, 2127103200, 2133410400, 2136564000, 2142871200}

\* round(x, ndigits) of the format specification, for x = seconds / d counted
\* in 1/scale: ".1f" has scale 10, "0.0f" has scale 1
Formatted(seconds, d, scale) ==
    IF \/ 2 * ((scale * (seconds % d)) % d) > d
       \/ (2 * ((scale * (seconds % d)) % d) = d /\ seconds \in TiesAbove)
    THEN scale * (seconds \div d) + (scale * (seconds % d)) \div d + 1
    ELSE scale * (seconds \div d) + (scale * (seconds % d)) \div d

\* the major time unit of the if chain
MajorUnit(seconds) ==
    IF \E i \in 1..Len(UnitOrder) : seconds >= UnitSeconds[UnitOrder[i]]
    THEN UnitOrder[Least({i \in 1..Len(UnitOrder) : seconds >= UnitSeconds[UnitOrder[i]]})]
    ELSE IF seconds > 5 THEN "sec"
    ELSE "ms"

\* the string for a unit other than ms: the plural s unless value = 1
DurationIn(seconds, unit) ==
    [number |-> Formatted(seconds, UnitSeconds[unit], 10),
     decimals |-> 1,
     unit |-> unit,
     plural |-> (seconds # UnitSeconds[unit])]

\* duration_ms = seconds / 1000, printed without decimals
DurationMs(seconds) ==
    [number |-> Formatted(seconds, 1000, 1), decimals |-> 0, unit |-> "ms",
     plural |-> FALSE]

DurationOf(seconds, unit) ==
    IF unit = "ms" THEN DurationMs(seconds) ELSE DurationIn(seconds, unit)

relative_duration(delta) == DurationOf(Abs(delta), MajorUnit(Abs(delta)))

\* the deltas it is given: the short ones, those around one and two of each
\* unit, those around 1.05 and 2.75 of each unit, and the longest
Deltas ==
    (-3..MaxDelta)
        \cup {UnitSeconds[u] * m + k : u \in {UnitOrder[i] : i \in 1..Len(UnitOrder)},
                                       m \in {1, 2}, k \in -2..2}
        \cup {(21 * UnitSeconds[u]) \div 20 + k :
                 u \in {UnitOrder[i] : i \in 1..Len(UnitOrder)}, k \in -1..1}
        \cup {(11 * UnitSeconds[u]) \div 4 + k :
                 u \in {UnitOrder[i] : i \in 1..Len(UnitOrder)}, k \in -1..1}
        \cup {2147483647}

InitDuration == dIn = 0 /\ dOut = relative_duration(0)

RelativeDuration ==
    /\ \E delta \in Deltas : dIn' = delta /\ dOut' = relative_duration(delta)
    /\ UNCHANGED <<sigVars, storeVars, msgVars, concVars, lastResponse, cleanVars, apiVars>>

(***************************************************************************)
(* The submission-remove endpoint: PATCH with an optional boolean          *)
(* removed_from_queue.                                                     *)
(***************************************************************************)
ApiIds == {1, 2, 3}

\* the body of the request: the parameter left out, true or false
RemoveParams == {"absent", "true", "false"}

\* submission_remove that marks the row removed whatever the request says
submission_remove_always_removes(row, param) ==
    IF row.removed_from_queue THEN row
    ELSE [removed_from_queue |-> TRUE, approved |-> FALSE]

\* the row after the request: the flag takes the requested value, true when
\* it is left out; a removal clears the approval in the same update; nothing
\* changes when the flag already has the requested value
submission_remove(row, param) ==
    IF row.removed_from_queue = (param # "false") THEN row
    ELSE [removed_from_queue |-> (param # "false"),
          approved |-> row.approved /\ (param = "false")]

\* the rows a submission can be
ApiRows == [removed_from_queue : BOOLEAN, approved : BOOLEAN]

\* the updates a request makes on the row, flag by flag: removed_from_queue
\* first, the approval in a second update
remove_updates_flag_by_flag(param) ==
    << [row \in ApiRows |-> [row EXCEPT !.removed_from_queue = (param # "false")]],
       [row \in ApiRows |-> [row EXCEPT !.approved = row.approved /\ (param = "false")]] >>

\* the updates a request makes on the row, each a function of the row as the
\* store holds it when the update is made: one update, which writes both
\* flags
remove_updates(param) == << [row \in ApiRows |-> submission_remove(row, param)] >>

\* no request is being handled
NoPending == [id |-> 0, param |-> "absent", before |-> <<>>, updates |-> <<>>]

\* the rows at the start: one in the queue, one approved, one removed from
\* the queue; none is approved and removed at once
InitApi ==
    /\ apiSubs = [id \in ApiIds |-> [removed_from_queue |-> (id = 3), approved |-> (id = 2)]]
    /\ apiPending = NoPending
    /\ apiBefore = apiSubs
    /\ apiReq = [id |-> 0, param |-> "absent"]
    /\ apiStatus = 0

\* a PATCH request arrives: the endpoint starts on it
PatchRemove ==
    /\ apiPending = NoPending
    /\ \E id \in ApiIds, param \in RemoveParams :
          apiPending' = [id |-> id, param |-> param, before |-> apiSubs,
                         updates |-> remove_updates(param)]
    /\ UNCHANGED <<apiSubs, apiBefore, apiReq, apiStatus>>
    /\ UNCHANGED <<sigVars, storeVars, msgVars, concVars, lastResponse, cleanVars, durVars>>

\* the endpoint makes its next update on the row; after the last one it
\* answers 200
ApiUpdate ==
    /\ apiPending # NoPending
    /\ apiSubs' = [apiSubs EXCEPT ![apiPending.id] = Head(apiPending.updates)[@]]
    /\ IF Len(apiPending.updates) = 1
       THEN /\ apiPending' = NoPending
            /\ apiReq' = [id |-> apiPending.id, param |-> apiPending.param]
            /\ apiBefore' = apiPending.before
            /\ apiStatus' = 200
       ELSE /\ apiPending' = [apiPending EXCEPT !.updates = Tail(@)]
            /\ UNCHANGED <<apiBefore, apiReq, apiStatus>>
    /\ UNCHANGED <<sigVars, storeVars, msgVars, concVars, lastResponse, cleanVars, durVars>>

Init ==
    InitSig /\ InitStore /\ InitMsg /\ InitThreads /\ InitClean /\ InitDuration /\ InitApi

\* the requests the second thread handles beside the first: a blacklist and a
\* reset command on the first user, and the keep and the remove button of the
\* first submission
BesidePayloads ==
    {TextEvent(Given(<<"<", "@", "U", "1", ">", " ", "b", "l", "a", "c", "k", "l", "i", "s", "t", " ", "<", "h", "t", "t", "p", ":", "/", "/", "b", "o", "b", ".", "c", "o", "m", "|", "b", "o", "b", ">">>),
               NoActions),
     TextEvent(Given(<<"<", "@", "U", "1", ">", " ", "r", "e", "s", "e", "t", " ", "b", "o", "b">>),
               NoActions),
     BlockAction([has |-> TRUE, none |-> FALSE,
                  vals |-> <<Header(<<"k", "e", "e", "p", "_", "s", "u", "b", "m", "i", "s", "s", "i", "o", "n", "_", "1">>)>>],
                 ReportBlocks),
     BlockAction([has |-> TRUE, none |-> FALSE,
                  vals |-> <<Header(<<"r", "e", "m", "o", "v", "e", "_", "s", "u", "b", "m", "i", "s", "s", "i", "o", "n", "_", "1">>)>>],
                 ReportBlocks)}

\* the first thread handles any request, the second one of BesidePayloads
Runs(t, data) == t = 1 \/ data \in BesidePayloads

\* the blocking call a thread is at once its handler has loaded its rows, and
\* once it has written: the write (save() or remove_post), the call on the
\* Slack client, or none when the handler has ended
AfterLoad(o) ==
    IF o.savedUser # 0 \/ o.savedSub # 0 \/ o.removed # {}
    THEN "save"
    ELSE IF o.out # <<>> THEN "send" ELSE "done"

AfterSave(o) == IF o.out # <<>> THEN "send" ELSE "done"

\* the number of toggle commands on each flag, mod 2, once the request of
\* payload data has ended
Toggled(data) ==
    [i \in 1..Len(UserNames) |->
        [blacklisted |->
             (toggles[i].blacklisted + (IF ToggleTargetOf(data, 5) = i THEN 1 ELSE 0)) % 2,
         accepted_coc |->
             (toggles[i].accepted_coc + (IF ToggleTargetOf(data, 3) = i THEN 1 ELSE 0)) % 2]]

\* the thread's step is the last one of its request (stage = "done"), whose
\* payload is data and which holds h: what it did is recorded; otherwise the
\* record of the request that ended last stays
Ended(stage, data, h) ==
    IF stage = "done"
    THEN /\ lastData' = data
         /\ lastResponse' = h.response
         /\ outbox' = h.o.out
         /\ fault' = h.o.exc
         /\ called' = h.o.called
         /\ removedPosts' = h.o.removed
         /\ usersBefore' = h.usersBefore
         /\ subsBefore' = h.subsBefore
         /\ usersAfter' = h.usersAfter
         /\ subsAfter' = h.subsAfter
         /\ toggles' = Toggled(data)
    ELSE UNCHANGED <<lastData, lastResponse, outbox, fault, called, removedPosts,
                     usersBefore, subsBefore, usersAfter, subsAfter, toggles>>

\* A thread starts on a request and runs up to its first blocking call and
\* through it: the query that loads the rows the handler works on
\* (BlossomUser.objects.filter(...).first(), Submission.objects.get,
\* Summary().generate_summary()) or requests.get.  o is what the handler makes
\* of the rows it loaded; the write and the call on the client are still to
\* come, each a step of its own.
Started(t, data, response, o) ==
    /\ inflight' = [inflight EXCEPT ![t] = data]
    /\ local' = [local EXCEPT ![t] = Held(o, response, users, subs, users, subs)]
    /\ pc' = [pc EXCEPT ![t] = AfterLoad(o)]
    /\ Ended(AfterLoad(o), data, Held(o, response, users, subs, users, subs))
    /\ UNCHANGED <<users, subs, sent, users0, sigVars, cleanVars, durVars, apiVars>>

\* process_message on a message event
HandleText ==
    \E t \in Threads :
        /\ pc[t] = "idle"
        /\ \E data \in TextPayloads :
              /\ Runs(t, data)
              /\ \E response \in (IF data \in JokePayloads THEN Responses ELSE {NoResponse}) :
                    \E o \in {process_message(data, response)} :
                        Started(t, data, response, o)

\* process_message on a button press
HandleBlock ==
    \E t \in Threads :
        /\ pc[t] = "idle"
        /\ \E data \in BlockPayloads :
              /\ Runs(t, data)
              /\ \E o \in {process_message(data, NoResponse)} :
                    Started(t, data, NoResponse, o)

\* a command of blossom.api.slack.commands, called with a message
Command(name, message) ==
    [type |-> name,
     event |-> [has |-> TRUE, text |-> Given(message), channel |-> "C1"],
     actions |-> NoActions, channel_id |-> "", ts |-> "", blocks |-> <<>>]

HandleWatchstatus ==
    \E t \in Threads :
        /\ pc[t] = "idle"
        /\ \E message \in CommandMessages :
              /\ StartsWith(message, <<"w">>)
              /\ Runs(t, Command("watchstatus_cmd", message))
              /\ \E o \in {watchstatus_cmd("C1", message)} :
                    Started(t, Command("watchstatus_cmd", message), NoResponse, o)

HandleInfo ==
    \E t \in Threads :
        /\ pc[t] = "idle"
        /\ \E message \in CommandMessages :
              /\ StartsWith(message, <<"i">>)
              /\ Runs(t, Command("info_cmd", message))
              /\ \E o \in {info_cmd("C1", message)} :
                    Started(t, Command("info_cmd", message), NoResponse, o)

\* the actions GitHub Sponsors reports
SponsorActions ==
    {<<"c", "r", "e", "a", "t", "e", "d">>, <<"c", "a", "n", "c", "e", "l", "l", "e", "d">>, <<"p", "e", "n", "d", "i", "n", "g", "_", "c", "a", "n", "c", "e", "l", "l", "a", "t", "i", "o", "n">>,
     <<"e", "d", "i", "t", "e", "d">>, <<"t", "i", "e", "r", "_", "c", "h", "a", "n", "g", "e", "d">>,
     <<"p", "e", "n", "d", "i", "n", "g", "_", "t", "i", "e", "r", "_", "c", "h", "a", "n", "g", "e">>}

\* the bodies of its requests
SponsorBodies ==
    {[has |-> TRUE, login |-> <<"b", "o", "b">>, tier |-> <<"t", "1">>],
     [has |-> FALSE, login |-> <<>>, tier |-> <<>>]}

\* the sponsors endpoint passes a request to send_github_sponsors_message
HandleSponsors ==
    \E t \in Threads :
        /\ pc[t] = "idle"
        /\ Runs(t, [NoPayload EXCEPT !.type = "github_sponsors"])
        /\ \E data \in SponsorBodies, action \in SponsorActions :
              \E o \in {send_github_sponsors_message(data, action)} :
                  Started(t, [NoPayload EXCEPT !.type = "github_sponsors"], NoResponse, o)

\* the store once the thread that holds o has written: save() writes every
\* column of the row from the object the thread loaded, whatever the row holds
\* by now
UsersSaved(o) ==
    IF o.savedUser # 0
    THEN [users EXCEPT ![o.savedUser] = o.users[o.savedUser]]
    ELSE users

SubsSaved(o) ==
    IF o.savedSub # 0
    THEN [subs EXCEPT ![o.savedSub] = o.subs[o.savedSub]]
    ELSE subs

\* the thread's write: user.save(), submission_obj.save(skip_extras=True) or
\* remove_post(submission_obj)
Save(t) ==
    /\ pc[t] = "save"
    /\ users' = UsersSaved(local[t].o)
    /\ subs' = SubsSaved(local[t].o)
    /\ local' = [local EXCEPT ![t] =
                    Held(local[t].o, local[t].response, users, subs,
                         UsersSaved(local[t].o), SubsSaved(local[t].o))]
    /\ pc' = [pc EXCEPT ![t] = AfterSave(local[t].o)]
    /\ Ended(AfterSave(local[t].o), inflight[t],
             Held(local[t].o, local[t].response, users, subs,
                  UsersSaved(local[t].o), SubsSaved(local[t].o)))
    /\ UNCHANGED <<inflight, sent, users0, sigVars, cleanVars, durVars, apiVars>>

\* the thread's call on the Slack client: client.chat_postMessage or
\* client.chat_update, the last thing a handler does
Send(t) ==
    /\ pc[t] = "send"
    /\ sent' = [sent EXCEPT ![t] = local[t].o.out]
    /\ pc' = [pc EXCEPT ![t] = "done"]
    /\ Ended("done", inflight[t], local[t])
    /\ UNCHANGED <<users, subs, inflight, local, users0, sigVars, cleanVars, durVars,
                   apiVars>>

Saves == \E t \in Threads : Save(t)

Sends == \E t \in Threads : Send(t)

Next ==
    \/ HandleText \/ HandleBlock \/ HandleWatchstatus \/ HandleInfo \/ HandleSponsors
    \/ Saves \/ Sends

vars ==
    <<sigVars, storeVars, msgVars, concVars, lastResponse, cleanVars, durVars, apiVars>>

Spec == Init /\ [][Next]_vars

NextSig ==
    /\ Tick \/ VerifySlack \/ VerifyGithub \/ ReplaySlack \/ ReplayGithub
    /\ UNCHANGED <<storeVars, msgVars, concVars, lastResponse, cleanVars, durVars, apiVars>>

SpecSig == Init /\ [][NextSig]_vars

NextClean == CleanLinks \/ CleanAgain

SpecClean == Init /\ [][NextClean]_vars

NextDuration == RelativeDuration

SpecDuration == Init /\ [][NextDuration]_vars

NextRemove == PatchRemove \/ ApiUpdate

SpecRemove == Init /\ [][NextRemove]_vars

(***************************************************************************)
(* Properties of the signature verifiers, checked under SpecSig.           *)
(***************************************************************************)
\* the signature a sender who knows the secret puts on the request vReq
RightSlackSignature == Header(SlackSignature(SigningSecret, vReq.ts.val, vReq.body))

\* C1: is_valid_slack_request returns false for every request whose timestamp
\* header is more than 300 seconds away from the current time, whatever its
\* signature header, the correctly computed one included.
C1_StaleTimestampRejected ==
    (vKind = "slack" /\ vReq.sig.has /\ vReq.ts.has /\ PyInt(vReq.ts.val).ok
        /\ ~Fresh(vReq, vAt))
    => vRes = "false"

\* C2: for a fresh timestamp, is_valid_slack_request accepts the request that
\* carries the signature computed from (secret, body, timestamp), accepts no
\* request that carries any other signature header (so none with one byte of
\* the body or of the header changed), and answers the same when the request
\* is evaluated again while its timestamp is fresh.
C2_SignedFreshAcceptedOnly ==
    (vKind = "slack" /\ Fresh(vReq, vAt))
    => /\ (vReq.sig = RightSlackSignature) => (vRes = "true")
       /\ (vReq.sig # RightSlackSignature) => (vRes # "true")
       /\ (vPrevRes # "none" /\ Fresh(vReq, vPrevAt)) => (vRes = vPrevRes)

\* C3: is_valid_github_request accepts a request if and only if the signature
\* header is present and equals "sha1=" followed by the hex HMAC-SHA1 of the
\* body under the secret; the current time plays no part, so the same request
\* gets the same answer whenever it is replayed.
C3_GithubAcceptsIffSigned ==
    vKind = "github"
    => /\ (vRes = "true")
          <=> (vReq.sig.has /\ vReq.sig.val = GithubSignature(SigningSecret, vReq.body))
       /\ (vPrevRes # "none") => (vRes = vPrevRes)

\* C3 witness: a signed request is accepted, and accepted again when it is
\* replayed more than the Slack replay window later.
C3_Witness ==
    /\ vKind = "github"
    /\ vReq.body # <<>>
    /\ vPrevRes = "true"
    /\ vRes = "true"
    /\ vAt - vPrevAt > ReplayWindow * TicksPerSecond

(***************************************************************************)
(* Properties of two toggle commands handled at the same time, checked     *)
(* under Spec.                                                             *)
(***************************************************************************)
\* C4: when two blacklist commands (or two reset commands) that name the same
\* user are handled concurrently, the outcome is that of handling them one
\* after the other: the flag ends at its original value, and one reply is the
\* set variant and the other the undo variant.
C4_ConcurrentTogglesSerialize ==
    \A i \in 1..Len(UserNames) :
        /\ (\A t \in Threads : pc[t] = "done" /\ ToggleTargetOf(inflight[t], 5) = i)
              => /\ users[i] = users0[i]
                 /\ {sent[t][1].text.key : t \in Threads}
                        = {"blacklist.success", "blacklist.success_undo"}
        /\ (\A t \in Threads : pc[t] = "done" /\ ToggleTargetOf(inflight[t], 3) = i)
              => /\ users[i] = users0[i]
                 /\ {sent[t][1].text.key : t \in Threads}
                        = {"reset_coc.success", "reset_coc.success_undo"}

(***************************************************************************)
(* Properties of process_message and of the commands, checked under Spec.  *)
(* They speak of the request that ended last: what it was given, what it   *)
(* sent, and the store just before and just after its write.               *)
(***************************************************************************)
\* the message the handler called last was given: what get_message made of the
\* event, or the message a command was called with
LastMessage ==
    IF lastData.type \in {"watchstatus_cmd", "info_cmd"}
    THEN lastData.event.text.val
    ELSE MessageOf(lastData)

\* the key of the text of the one call made on the client, "" if there is not
\* exactly one call
ReplyKey == IF Len(outbox) = 1 THEN outbox[1].text.key ELSE ""

\* C5: whatever payload process_message is given, it ends by sending a reply
\* (or a message update), never in an unhandled exception.
C5_AlwaysReplies ==
    lastData.type \in {"event_callback", "block_actions"}
    => (fault = NoExc /\ outbox # <<>>)

\* C6: handling one message that is not a button press changes at most one
\* thing in the store: a blacklist command that names a user changes only that
\* user's blacklisted flag, a reset command that names a user only that user's
\* accepted_coc flag, and every other message changes no row at all.
C6_AtMostOneMutation ==
    lastData.type \in {"event_callback", "watchstatus_cmd", "info_cmd"}
    => /\ subsAfter = subsBefore
       /\ removedPosts = {}
       /\ \A i \in 1..Len(users) :
             /\ usersAfter[i].username = usersBefore[i].username
             /\ (ToggleTargetOf(lastData, 5) # i)
                    => usersAfter[i].blacklisted = usersBefore[i].blacklisted
             /\ (ToggleTargetOf(lastData, 3) # i)
                    => usersAfter[i].accepted_coc = usersBefore[i].accepted_coc

\* every request has ended: no thread is between two of its blocking calls
Quiet == \A t \in Threads : pc[t] \in {"idle", "done"}

\* C7: every blacklist command that names a user flips that user's blacklisted
\* flag and every reset command that user's accepted_coc flag; the reply is
\* decided by the flag's value before the command and differs between the two
\* directions; so, once the commands have ended, a flag has its initial value
\* exactly when the number of commands on it is even.
C7_TogglesFlip ==
    /\ \A i \in 1..Len(users) :
          /\ (ToggleTargetOf(lastData, 5) = i)
                => /\ usersAfter[i].blacklisted = ~usersBefore[i].blacklisted
                   /\ ReplyKey = (IF usersBefore[i].blacklisted
                                  THEN "blacklist.success_undo"
                                  ELSE "blacklist.success")
          /\ (ToggleTargetOf(lastData, 3) = i)
                => /\ usersAfter[i].accepted_coc = ~usersBefore[i].accepted_coc
                   /\ ReplyKey = (IF usersBefore[i].accepted_coc
                                  THEN "reset_coc.success"
                                  ELSE "reset_coc.success_undo")
          /\ Quiet => ((users[i].blacklisted = users0[i].blacklisted)
                          <=> (toggles[i].blacklisted = 0))
          /\ Quiet => ((users[i].accepted_coc = users0[i].accepted_coc)
                          <=> (toggles[i].accepted_coc = 0))

\* the function options maps each keyword to
HandlerNames ==
    <<"pong", "send_help_message", "process_coc_reset", "send_info",
      "process_blacklist", "dadjoke_target">>

\* C8: a non-empty message is handled by the handler of the first keyword, in
\* the order ping, help, reset, info, blacklist, dadjoke, that the whole
\* message starts with, and by no other; the "unknown request" reply is posted
\* exactly when the message starts with no keyword.
C8_FirstPrefixDispatch ==
    (lastData.type = "event_callback" /\ fault = NoExc /\ LastMessage # <<>>)
    => LET hits == {k \in 1..Len(Keywords) : StartsWith(LastMessage, Keywords[k])}
       IN  /\ (hits = {})
                => (called = <<>> /\ ReplyKey = "errors.unknown_request")
           /\ (hits # {})
                => /\ called = <<HandlerNames[CHOOSE k \in hits : \A j \in hits : k <= j]>>
                   /\ ReplyKey # "errors.unknown_request"

\* C8 witness: a message whose first token is not a keyword, but which starts
\* with one, was handled by that keyword's handler.
C8_Witness ==
    /\ lastData.type = "event_callback"
    /\ called = <<"pong">>
    /\ Split(LastMessage)[1] # Keywords[1]

\* C9: a message event without actions whose message is empty once the
\* mention is stripped is answered with the "empty message" reply.
C9_EmptyMessageReply ==
    (/\ lastData.type = "event_callback"
     /\ lastData.event.has /\ lastData.event.text.has
     /\ ~lastData.actions.has
     /\ get_message(lastData).exc = NoExc
     /\ LastMessage = <<>>)
    => outbox = <<Post(lastData.event.channel, Msg("errors.empty_message_error"))>>

\* the number of tokens of the message handled last
Tokens == Len(Split(LastMessage))

\* C10 as stated: every handler answers a message of one token with the
\* missing-parameter reply (info: with the summary) and a message of three or
\* more tokens with the too-many-parameters reply.
C10_ArityEveryHandler ==
    (called # <<>> /\ lastData.type # "block_actions")
    => /\ (Tokens = 1)
             => ReplyKey = (IF called[1] \in {"send_info", "info_cmd"}
                            THEN "server_summary"
                            ELSE "errors.missing_username")
       /\ (Tokens >= 3) => ReplyKey = "errors.too_many_params"

\* C10 amended: reset, blacklist and watchstatus answer a message of one token
\* with the missing-parameter reply and one of three or more tokens with the
\* too-many-parameters reply; info answers one token with the summary and
\* three or more with too-many-parameters; ping, help and dadjoke take no
\* parameter and answer PONG, the help text and a joke whatever the number of
\* tokens.
C10_ArityWhereParameters ==
    (called # <<>> /\ lastData.type # "block_actions")
    => /\ (called[1] \in {"process_coc_reset", "process_blacklist", "watchstatus_cmd"})
             => /\ (Tokens = 1) => ReplyKey = "errors.missing_username"
                /\ (Tokens >= 3) => ReplyKey = "errors.too_many_params"
       /\ (called[1] \in {"send_info", "info_cmd"})
             => /\ (Tokens = 1) => ReplyKey = "server_summary"
                /\ (Tokens >= 3) => ReplyKey = "errors.too_many_params"
       /\ (called[1] = "pong") => outbox = <<Post("C1", Raw(<<"P", "O", "N", "G">>))>>
       /\ (called[1] = "send_help_message") => ReplyKey = "help_message"
       /\ (called[1] = "dadjoke_target" /\ Tokens # 2) => ReplyKey = "text"

\* C10 witness: a reset command with a user name and one more token got the
\* too-many-parameters reply and changed nothing.
C10_Witness ==
    /\ called = <<"process_coc_reset">>
    /\ Tokens >= 3
    /\ ReplyKey = "errors.too_many_params"
    /\ usersAfter = usersBefore

\* what the text of the message event handled last holds after the mention
AfterMention ==
    Drop(lastData.event.text.val, IndexOf(lastData.event.text.val, ">") + 1)

\* C11: a message event whose text, after the mention, is the keyword ping with
\* any white space before and after it is answered with exactly "PONG".
C11_PingAlwaysPong ==
    (/\ lastData.type = "event_callback"
     /\ lastData.event.has /\ lastData.event.text.has
     /\ IndexOf(lastData.event.text.val, ">") >= 0
     /\ Split(Lower(AfterMention)) = <<Keywords[1]>>)
    => outbox = <<Post(lastData.event.channel, Raw(<<"P", "O", "N", "G">>))>>

\* the handlers that look a user up by the name in the second token
ResolvingHandlers ==
    {"send_info", "process_blacklist", "process_coc_reset", "watchstatus_cmd", "info_cmd"}

\* the second token of the message handled last
NameToken == Split(LastMessage)[2]

\* C12: every handler that resolves a username answers a message of two tokens
\* whose username matches no user with the same "unknown username" reply,
\* formatted with the username that was tried.
C12_UnknownUsernameReply ==
    (/\ called # <<>> /\ called[1] \in ResolvingHandlers
     /\ Tokens = 2
     /\ FindUser(NameToken) = 0 /\ FindUser(clean_links(NameToken)) = 0)
    => /\ Len(outbox) = 1
       /\ outbox[1].text.key = "errors.unknown_username"
       /\ outbox[1].text.formatted
       /\ outbox[1].text.args \in {<<NameToken>>, <<clean_links(NameToken)>>}

\* C13: what clean_links returns holds no match of the link pattern any more,
\* so cleaning it again changes nothing.
C13_CleanLinksIdempotent ==
    /\ FindIter(cOut, 1) = <<>>
    /\ clean_links(cOut) = cOut

\* the tokens of the value of the button pressed last
ActionTokens == SplitOn(lastData.actions.vals[1].val, "_")

\* the submission that value names
ActionSubmission == PyInt(ActionTokens[3]).val

\* process_submission_update ran to its end on the payload handled last
UpdateCompleted ==
    /\ lastData.type = "block_actions"
    /\ called = <<"process_submission_update">>
    /\ fault = NoExc

\* the payload handled last was passed to process_submission_update
UpdateCalled ==
    /\ lastData.type = "block_actions"
    /\ called = <<"process_submission_update">>

\* C14: process_submission_update ends with exactly one chat_update, to the
\* channel and timestamp of the message, with the block list of the message
\* in which only the last block is replaced; before it, a value whose first
\* token is "keep" has the submission's removed_from_queue set to false and
\* no post removed, and any other first token has the post of the submission
\* removed and no row written.
C14_KeepOrRemoveThenUpdate ==
    UpdateCalled
    => /\ Len(outbox) = 1
       /\ outbox[1].op = "chat_update"
       /\ outbox[1].channel = lastData.channel_id
       /\ outbox[1].ts = lastData.ts
       /\ Len(outbox[1].blocks) = Len(lastData.blocks)
       /\ \A i \in 1..(Len(lastData.blocks) - 1) : outbox[1].blocks[i] = lastData.blocks[i]
       /\ outbox[1].blocks[Len(lastData.blocks)] # lastData.blocks[Len(lastData.blocks)]
       /\ (ActionTokens[1] = KeepWord)
             => /\ subsAfter
                       = [subsBefore EXCEPT ![ActionSubmission].removed_from_queue = FALSE]
                /\ removedPosts = {}
       /\ (ActionTokens[1] # KeepWord)
             => /\ subsAfter = subsBefore
                /\ removedPosts = {ActionSubmission}
       /\ usersAfter = usersBefore

\* what the request handled last asks removed_from_queue to be
RequestedRemoved == apiReq.param # "false"

\* C15: a submission-remove PATCH answers 200 and leaves removed_from_queue of
\* the submission equal to the boolean of the body, true when the body has
\* none, whatever it was before; no other submission changes; the same request
\* again changes nothing; and removed_from_queue=false puts a removed
\* submission back.
C15_RemoveSetsRequestedState ==
    (apiReq.id \in ApiIds)
    => /\ apiStatus = 200
       /\ apiSubs[apiReq.id].removed_from_queue = RequestedRemoved
       /\ \A id \in ApiIds \ {apiReq.id} : apiSubs[id] = apiBefore[id]
       /\ submission_remove(apiSubs[apiReq.id], apiReq.param) = apiSubs[apiReq.id]
       /\ (apiBefore[apiReq.id].removed_from_queue = RequestedRemoved)
             => apiSubs = apiBefore

\* C15 witness: a request with removed_from_queue=false restored a removed
\* submission.
C15_Witness ==
    /\ apiReq.id \in ApiIds
    /\ apiReq.param = "false"
    /\ apiBefore[apiReq.id].removed_from_queue
    /\ ~apiSubs[apiReq.id].removed_from_queue
    /\ apiStatus = 200

JokeUsed == outbox[1].text.args[Len(outbox[1].text.args)]

\* the joke service failed: requests.get raised, or answered another status
\* than 200
FetchFailed == lastResponse.raised \/ lastResponse.status # 200

\* C17: dadjoke_target never raises and posts exactly one reply that is not
\* empty; when the fetch raised or answered a status other than 200 the joke is
\* the fallback; the reply addresses the mention, in upper case, when the
\* message has exactly two tokens and the second starts with "<", and is the
\* joke alone otherwise.
C17_JokeFallbackOnFailure ==
    (called = <<"dadjoke_target">>)
    => /\ fault = NoExc
       /\ Len(outbox) = 1
       /\ outbox[1].op = "chat_postMessage"
       /\ outbox[1].text # Raw(<<>>)
       /\ FetchFailed => JokeUsed = FallbackJoke
       /\ IF Tokens = 2 /\ StartsWith(Split(LastMessage)[2], <<"<">>)
          THEN /\ outbox[1].text.key = "dadjoke.message"
               /\ outbox[1].text.args[1] = Upper(Split(LastMessage)[2])
          ELSE outbox[1].text.key = "text"

\* the length of the delta formatted last, in seconds
DeltaSeconds == Abs(dIn)

\* the unit the delta formatted last is to be shown in: the largest of year
\* (365 days), month (30 days), week, day, hour and minute that it fills at
\* least once, seconds above 5 s, milliseconds up to 5 s
ExpectedUnit ==
    IF DeltaSeconds >= 365 * 86400 THEN "year"
    ELSE IF DeltaSeconds >= 30 * 86400 THEN "month"
    ELSE IF DeltaSeconds >= 7 * 86400 THEN "week"
    ELSE IF DeltaSeconds >= 86400 THEN "day"
    ELSE IF DeltaSeconds >= 3600 THEN "hour"
    ELSE IF DeltaSeconds >= 60 THEN "min"
    ELSE IF DeltaSeconds > 5 THEN "sec"
    ELSE "ms"

\* C18: _relative_duration shows a delta of whole seconds in the largest unit
\* of year, month, week, day, hour, minute that it fills at least once, in
\* seconds when it is above 5 s and under a minute, and a delta of at most 5 s
\* as its number of milliseconds, an integer with the unit ms (3 s gives 3000).
C18_UnitAndMilliseconds ==
    /\ dOut.unit = ExpectedUnit
    /\ (DeltaSeconds <= 5)
          => /\ dOut.decimals = 0
             /\ dOut.number = 1000 * DeltaSeconds

\* C19: in every unit but ms, _relative_duration adds the plural s unless the
\* value rounded to one decimal is exactly 1: a delta shown as 1.0 has the
\* singular unit and every other delta the plural one.
C19_PluralByRoundedValue ==
    (dOut.unit # "ms") => (dOut.plural <=> (dOut.number # 10))

\* the payload handled last is a block action that carries a value
BlockActionWithValue ==
    /\ lastData.type = "block_actions"
    /\ lastData.actions.has
    /\ lastData.actions.vals # <<>>
    /\ lastData.actions.vals[1].has

\* the value of the button pressed last
ActionValue == lastData.actions.vals[1].val

\* word occurs somewhere in the value of the button pressed last
ValueHas(word) ==
    \E i \in 1..Len(ActionValue) :
        /\ i + Len(word) - 1 <= Len(ActionValue)
        /\ \A j \in 1..Len(word) : ActionValue[i + j - 1] = word[j]

\* C20 (as stated): every block_actions payload is routed to
\* process_submission_update, whatever its action value.
C20_EveryBlockActionRouted ==
    BlockActionWithValue => (called = <<"process_submission_update">>)

\* C20 (amended): a block_actions payload is routed to
\* process_submission_update when its action value contains "keep" or
\* "remove"; with any other value nothing is called or changed and the one
\* reply is errors.unknown_payload with the value, on the channel of the
\* payload; no block action reaches a keyword handler.
C20_BlockActionRoutedByValue ==
    BlockActionWithValue
    => IF ValueHas(KeepWord) \/ ValueHas(RemoveWord)
       THEN called = <<"process_submission_update">>
       ELSE /\ called = <<>>
            /\ fault = NoExc
            /\ usersAfter = usersBefore
            /\ subsAfter = subsBefore
            /\ removedPosts = {}
            /\ outbox = <<Post(lastData.channel_id,
                               Fmt("errors.unknown_payload", <<ActionValue>>))>>

\* C20 witness: a value that contains "keep" past its start was routed to
\* process_submission_update.
C20_Witness ==
    /\ BlockActionWithValue
    /\ ValueHas(KeepWord)
    /\ ~StartsWith(ActionValue, KeepWord)
    /\ called = <<"process_submission_update">>

\* what int() makes of the last token of the value of the button pressed last
LastTokenId == PyInt(ActionTokens[Len(ActionTokens)])

\* C21: the submission process_submission_update works on is the one named by
\* the last token of the action value, whatever the number of tokens from
\* three up: a keep clears the flag of that submission and of no other, any
\* other verb removes the post of that submission and of no other.
C21_IdFromLastToken ==
    (UpdateCompleted /\ LastTokenId.ok /\ LastTokenId.val \in DOMAIN subsBefore)
    => IF ActionTokens[1] = KeepWord
       THEN subsAfter = [subsBefore EXCEPT ![LastTokenId.val].removed_from_queue = FALSE]
       ELSE removedPosts = {LastTokenId.val}

\* process_message ran to its end on the payload handled last
MessageCompleted ==
    /\ lastData.type \in {"event_callback", "block_actions"}
    /\ fault = NoExc

\* C22: every run of process_message that ends without an exception has made
\* exactly one call on the client: one chat_update when the payload was routed
\* to process_submission_update, one chat_postMessage on every other path.
C22_ExactlyOneCall ==
    MessageCompleted
    => /\ Len(outbox) = 1
       /\ outbox[1].op = IF called = <<"process_submission_update">>
                         THEN "chat_update"
                         ELSE "chat_postMessage"

\* C22 witness: send_info answered a message of two tokens with its one post.
C22_Witness ==
    /\ MessageCompleted
    /\ called = <<"send_info">>
    /\ Tokens = 2
    /\ Len(outbox) = 1
    /\ outbox[1].op = "chat_postMessage"

\* the keywords the message starts with
KeywordsAt(message) == {k \in 1..Len(Keywords) : StartsWith(message, Keywords[k])}

\* the keyword the loop of process_message stops at when the keys of options
\* come in the given order, 0 if it stops at none
FirstMatchIn(order, message) ==
    IF KeywordsAt(message) = {} THEN 0
    ELSE order[CHOOSE i \in 1..Len(Keywords) :
                   /\ order[i] \in KeywordsAt(message)
                   /\ \A j \in 1..(i - 1) : order[j] \notin KeywordsAt(message)]

\* the handlers called for a message whose loop stopped at keyword k
HandlerOf(k) == IF k = 0 THEN <<>> ELSE <<HandlerNames[k]>>

\* the messages of the message events
Messages == {MessageOf(data) : data \in TextPayloads}

\* the handlers process_message calls for each message, over the orders the
\* keys of options may come in
HandlersInAnyOrder ==
    [message \in Messages |->
        {HandlerOf(FirstMatchIn(order, message)) :
            order \in Permutations(1..Len(Keywords))}]

\* C23: no keyword of ping, help, reset, info, blacklist, dadjoke is the start
\* of another, so a message starts with at most one keyword and the handler
\* process_message called for it is the one the loop stops at with the keys in
\* any order.
C23_KeywordsPrefixFree ==
    /\ \A i, j \in 1..Len(Keywords) : (i # j) => ~StartsWith(Keywords[i], Keywords[j])
    /\ (lastData.type = "event_callback" /\ fault = NoExc /\ LastMessage # <<>>)
          => /\ Cardinality(KeywordsAt(LastMessage)) <= 1
             /\ HandlersInAnyOrder[LastMessage] = {called}

\* C23 witness: a message that starts with the fifth keyword, and with no
\* other, went to process_blacklist.
C23_Witness ==
    /\ lastData.type = "event_callback"
    /\ fault = NoExc
    /\ KeywordsAt(LastMessage) = {5}
    /\ called = <<"process_blacklist">>

====
